---------------------------- MODULE Spec2Model ----------------------------
(***************************************************************************)
(* A model of the TalentXAI application: entxp.py (model invocation, JSON  *)
(* recovery, Day-in-the-Life flow, Spark Hub labs), voice_pipeline.py (the *)
(* spoken turn) and app.py (shell, avatar selector, voice copilot).        *)
(*                                                                         *)
(* Text is modelled as a sequence of lexical units.  A unit is one of the  *)
(* characters  [ ] { } : ,  the double quote, a space, a newline, the      *)
(* fence marker, a digit, a JSON literal null/true/false, or a chunk: a    *)
(* run of other characters that neither starts nor ends with white space   *)
(* (it may hold inner spaces).                                             *)
(***************************************************************************)
EXTENDS Integers, Sequences, FiniteSets, TLC

\* ------------------------------------------------------------------ text

\* The double-quote character, written as a named unit.
QT == "dq"
\* The triple-backtick fence marker, written as a named unit.
FENCE == "fence"
Digits == {"1", "2"}
Literals == {"null", "true", "false"}

\* The newline character, written as a named unit.
NL == "nl"
IsSpace(c) == c \in {" ", NL}

Least(S) == CHOOSE x \in S : \A y \in S : x <= y
Greatest(S) == CHOOSE x \in S : \A y \in S : x >= y

\* str.strip(): drop white space at both ends.
Strip(s) ==
    LET inked == {i \in 1..Len(s) : ~IsSpace(s[i])}
    IN  IF inked = {} THEN <<>> ELSE SubSeq(s, Least(inked), Greatest(inked))

\* str.find(c) from position i on: the first index holding c, 0 when absent
\* (-1 in Python; indices here are 1-based).
FindFrom(s, c, i) ==
    LET hits == {j \in i..Len(s) : s[j] = c}
    IN  IF hits = {} THEN 0 ELSE Least(hits)

Find(s, c) == FindFrom(s, c, 1)

Contains(s, c) == \E i \in 1..Len(s) : s[i] = c

\* str.split(sep) for a one-unit separator: the pieces between occurrences.
RECURSIVE SplitFrom(_, _, _)
SplitFrom(s, sep, i) ==
    LET cut == FindFrom(s, sep, i)
    IN  IF cut = 0 THEN <<SubSeq(s, i, Len(s))>>
        ELSE <<SubSeq(s, i, cut - 1)>> \o SplitFrom(s, sep, cut + 1)

Split(s, sep) == SplitFrom(s, sep, 1)

\* ------------------------------------------------------------ JSON values

\* Every value is a record of one shape, so that any two values compare.
\*   t    : "null" | "bool" | "num" | "str" | "list" | "obj"
\*   s    : the units of a literal, number or string
\*   kids : list items, or object values in key order
\*   keys : object keys (dict insertion order; equality here is by order)
Node(t, s, kids, keys) == [t |-> t, s |-> s, kids |-> kids, keys |-> keys]
JNull == Node("null", <<>>, <<>>, <<>>)
JBool(b) == Node("bool", <<b>>, <<>>, <<>>)
JNum(d) == Node("num", d, <<>>, <<>>)
JStr(s) == Node("str", s, <<>>, <<>>)
JList(items) == Node("list", <<>>, items, <<>>)
JObj(keys, vals) == Node("obj", <<>>, vals, keys)

IsList(v) == v.t = "list"
IsDict(v) == v.t = "obj"
IsStr(v) == v.t = "str"

HasKey(v, k) == IsDict(v) /\ \E i \in 1..Len(v.keys) : v.keys[i] = k
\* dict[k] / dict.get(k, default)
Get(v, k, default) ==
    IF HasKey(v, k)
    THEN v.kids[CHOOSE i \in 1..Len(v.keys) : v.keys[i] = k]
    ELSE default

\* dict[k] = x while decoding: a repeated key keeps its place, the last value wins.
PutKey(keys, vals, k, x) ==
    IF \E i \in 1..Len(keys) : keys[i] = k
    THEN LET i == CHOOSE j \in 1..Len(keys) : keys[j] = k
         IN  [keys |-> keys, vals |-> [vals EXCEPT ![i] = x]]
    ELSE [keys |-> Append(keys, k), vals |-> Append(vals, x)]

\* Python truthiness of a decoded value.
Truthy(v) ==
    CASE v.t = "null" -> FALSE
      [] v.t = "bool" -> v.s = <<"true">>
      [] v.t = "num"  -> TRUE      \* the digits here never spell zero
      [] v.t = "str"  -> Len(v.s) > 0
      [] v.t = "list" -> Len(v.kids) > 0
      [] OTHER        -> Len(v.keys) > 0

\* -------------------------------------------------------------- json.loads

\* The first position from i on that holds no white space (Len(s) + 1 when
\* there is none).
SkipWs(s, i) ==
    Least({j \in i..Len(s) : ~IsSpace(s[j])} \cup {Len(s) + 1})

\* The position after the run of digits that starts at i.
DigitsEnd(s, i) ==
    Least({j \in i..Len(s) : s[j] \notin Digits} \cup {Len(s) + 1})

PFail == [ok |-> FALSE, val |-> JNull, next |-> 0]
POk(v, n) == [ok |-> TRUE, val |-> v, next |-> n]

\* The decoder's scan_once at position i (white space already skipped):
\* [ok, val, next], next being the position after the value.
RECURSIVE ParseValue(_, _)
RECURSIVE ParseItems(_, _, _)
RECURSIVE ParseMembers(_, _, _, _)

\* A string whose closing double quote is at position close (0: there is
\* none).  The units hold no backslash; a raw newline inside a string is a
\* control character and is refused.
StringUpTo(s, i, close) ==
    IF close = 0 \/ Contains(SubSeq(s, i + 1, close - 1), NL) THEN PFail
    ELSE POk(JStr(SubSeq(s, i + 1, close - 1)), close + 1)

ParseString(s, i) == StringUpTo(s, i, FindFrom(s, QT, i + 1))

\* After the items got, the list goes on at position j.
ItemsNext(s, j, got) ==
    IF j > Len(s) THEN PFail
    ELSE IF s[j] = "]" THEN POk(JList(got), j + 1)
    ELSE IF s[j] = "," THEN ParseItems(s, SkipWs(s, j + 1), got)
    ELSE PFail

ItemsAfter(s, item, acc) ==
    IF ~item.ok THEN PFail
    ELSE ItemsNext(s, SkipWs(s, item.next), Append(acc, item.val))

\* An item is expected at position i of a list holding acc so far.
ParseItems(s, i, acc) == ItemsAfter(s, ParseValue(s, i), acc)

\* After the members got, the object goes on at position j.
MembersNext(s, j, got) ==
    IF j > Len(s) THEN PFail
    ELSE IF s[j] = "}" THEN POk(JObj(got.keys, got.vals), j + 1)
    ELSE IF s[j] = "," THEN ParseMembers(s, SkipWs(s, j + 1), got.keys, got.vals)
    ELSE PFail

MemberValue(s, key, item, keys, vals) ==
    IF ~item.ok THEN PFail
    ELSE MembersNext(s, SkipWs(s, item.next),
                     PutKey(keys, vals, key.val.s, item.val))

\* The key was read; a colon and the value are expected at position c on.
MemberAfterKey(s, key, c, keys, vals) ==
    IF c > Len(s) \/ s[c] # ":" THEN PFail
    ELSE MemberValue(s, key, ParseValue(s, SkipWs(s, c + 1)), keys, vals)

MemberKey(s, key, keys, vals) ==
    IF ~key.ok THEN PFail
    ELSE MemberAfterKey(s, key, SkipWs(s, key.next), keys, vals)

\* A member (key : value) is expected at position i.
ParseMembers(s, i, keys, vals) ==
    IF i > Len(s) \/ s[i] # QT THEN PFail
    ELSE MemberKey(s, ParseString(s, i), keys, vals)

\* The position j follows an opening bracket and the white space after it.
ListFrom(s, j) ==
    IF j <= Len(s) /\ s[j] = "]" THEN POk(JList(<<>>), j + 1)
    ELSE ParseItems(s, j, <<>>)

ObjectFrom(s, j) ==
    IF j <= Len(s) /\ s[j] = "}" THEN POk(JObj(<<>>, <<>>), j + 1)
    ELSE ParseMembers(s, j, <<>>, <<>>)

NumberUpTo(s, i, e) == POk(JNum(SubSeq(s, i, e - 1)), e)

ParseValue(s, i) ==
    IF i > Len(s) THEN PFail
    ELSE CASE s[i] = QT -> ParseString(s, i)
           [] s[i] = "[" -> ListFrom(s, SkipWs(s, i + 1))
           [] s[i] = "{" -> ObjectFrom(s, SkipWs(s, i + 1))
           [] s[i] \in Digits -> NumberUpTo(s, i, DigitsEnd(s, i))
           [] s[i] = "null" -> POk(JNull, i + 1)
           [] s[i] \in {"true", "false"} -> POk(JBool(s[i]), i + 1)
           [] OTHER -> PFail

\* A whole text is one value with white space around it and nothing else.
WholeText(s, r) ==
    IF r.ok /\ SkipWs(s, r.next) = Len(s) + 1
    THEN [ok |-> TRUE, val |-> r.val]
    ELSE [ok |-> FALSE, val |-> JNull]

\* json.loads(s); [ok |-> FALSE] stands for json.JSONDecodeError.
Loads(s) == WholeText(s, ParseValue(s, SkipWs(s, 1)))

\* ---------------------------------------------------- safe_json_from_model

\* ValueError("Could not extract JSON from model output."), or a failed attempt.
NoJson == [ok |-> FALSE, val |-> JNull]

\* try: return a  except Exception: go on with b
OrElse(a, b) == IF a.ok THEN a ELSE b

\* 1) direct parse
DirectParse(raw) == Loads(raw)

\* 2) inside fences: the first piece whose stripped text starts with a bracket
\*    and parses; a piece that does not parse is skipped.
FenceTry(candidate) ==
    IF Len(candidate) > 0 /\ candidate[1] \in {"[", "{"}
    THEN Loads(candidate)
    ELSE NoJson

RECURSIVE FenceScan(_, _)
FenceScan(parts, i) ==
    IF i > Len(parts) THEN NoJson
    ELSE OrElse(FenceTry(Strip(parts[i])), FenceScan(parts, i + 1))

FenceParse(raw) ==
    IF Contains(raw, FENCE) THEN FenceScan(Split(raw, FENCE), 1) ELSE NoJson

\* 3) the inner loop: every position after start that holds close_char is
\*    tried in increasing order (end is the next one, 0 when none is left);
\*    the first candidate that parses is returned.
RECURSIVE EndScan(_, _, _, _)
EndScan(raw, start, end, close_char) ==
    IF end = 0 THEN NoJson
    ELSE OrElse(Loads(SubSeq(raw, start, end)),
                EndScan(raw, start, FindFrom(raw, close_char, end + 1), close_char))

ScanFrom(raw, start, close_char) ==
    IF start = 0 THEN NoJson
    ELSE EndScan(raw, start, FindFrom(raw, close_char, start + 1), close_char)

BracketScan(raw, open_char, close_char) ==
    ScanFrom(raw, Find(raw, open_char), close_char)

\* The loop over the two bracket pairs, the list pair first.
ScanPairs(raw) ==
    OrElse(BracketScan(raw, "[", "]"), BracketScan(raw, "{", "}"))

Recover(raw) ==
    OrElse(DirectParse(raw), OrElse(FenceParse(raw), ScanPairs(raw)))

safe_json_from_model(text) == Recover(Strip(text))

\* -------------------------------------------------------------- json.dumps

\* The text of a value, as a model would emit it (compact separators).
RECURSIVE Dumps(_)
RECURSIVE DumpItems(_, _)
RECURSIVE DumpMembers(_, _, _)

DumpItems(items, i) ==
    IF i > Len(items) THEN <<>>
    ELSE (IF i > 1 THEN <<",">> ELSE <<>>) \o Dumps(items[i]) \o DumpItems(items, i + 1)

DumpMembers(keys, vals, i) ==
    IF i > Len(keys) THEN <<>>
    ELSE (IF i > 1 THEN <<",">> ELSE <<>>)
         \o <<QT>> \o keys[i] \o <<QT, ":">> \o Dumps(vals[i])
         \o DumpMembers(keys, vals, i + 1)

Dumps(v) ==
    CASE v.t = "str"  -> <<QT>> \o v.s \o <<QT>>
      [] v.t = "list" -> <<"[">> \o DumpItems(v.kids, 1) \o <<"]">>
      [] v.t = "obj"  -> <<"{">> \o DumpMembers(v.keys, v.kids, 1) \o <<"}">>
      [] v.t = "null" -> <<"null">>
      [] OTHER        -> v.s

\* ------------------------------------------------------------ call_bedrock

\* What one call of call_bedrock does: it raises (transport or service error,
\* bad response body), or it returns the generation text.
BedrockRaises == [raised |-> TRUE, text |-> <<>>]
BedrockReturns(t) == [raised |-> FALSE, text |-> t]

\* The body of a generator's try block up to the parsed value:
\* exc is "none", "TransportError" (from call_bedrock) or "ValueError"
\* (from safe_json_from_model).
Parsed(r) ==
    IF r.ok THEN [exc |-> "none", val |-> r.val]
    ELSE [exc |-> "ValueError", val |-> JNull]

GenerateAndParse(out) ==
    IF out.raised THEN [exc |-> "TransportError", val |-> JNull]
    ELSE Parsed(safe_json_from_model(out.text))

\* A check made on the parsed value inside the try block: when accepted is
\* false the block raises ValueError itself.
Checked(got, accepted) ==
    IF got.exc = "none" /\ ~accepted THEN [exc |-> "ValueError", val |-> JNull]
    ELSE got

\* A handler that names ValueError alone: a transport error passes through.
ExceptValueErrorOnly(exc) == exc = "ValueError"

\* except Exception as e: every exception of the try body is handled.
ExceptException(exc) == exc # "none"

\* What a generator hands back: raised (the exception left the function),
\* value, fallback (the except branch built the value), notice (st.toast).
GenResult(raised, value, fallback, notice) ==
    [raised |-> raised, value |-> value, fallback |-> fallback, notice |-> notice]
Propagated == GenResult(TRUE, JNull, FALSE, FALSE)

\* A try block with no handler: every exception of its body leaves the function.
TryWithoutHandler(got, fallback_value, toast) ==
    IF got.exc = "none" THEN GenResult(FALSE, got.val, FALSE, FALSE) ELSE Propagated

\* try: ... return value / except Exception: (toast) return the fallback
TryExcept(got, fallback_value, toast) ==
    IF got.exc = "none" THEN GenResult(FALSE, got.val, FALSE, FALSE)
    ELSE IF ExceptException(got.exc) THEN GenResult(FALSE, fallback_value, TRUE, toast)
    ELSE Propagated

\* --------------------------------------- ent_generate_role_options_from_ai

K(name) == <<name>>
S(text) == JStr(<<text>>)

RoleOption(role_name, hook, why) ==
    JObj(<<K("role_name"), K("one_sentence_hook"), K("why_it_fits_this_person")>>,
         <<S(role_name), S(hook), S(why)>>)

FallbackRoles ==
    JList(<<
        RoleOption("Assistant Creative Producer",
                   "You turn ideas and chaos into an actual show.",
                   "You enjoy planning, working with others, and being near the action."),
        RoleOption("Community Content Curator",
                   "You find the best stories and help them shine.",
                   "You like social media, picking good content, and boosting others' voices."),
        RoleOption("Studio Session Coordinator",
                   "You keep studio days running smooth and on time.",
                   "You're organized and don't mind juggling multiple tasks.")
    >>)

\* The acceptance test without its length half.
RolesAcceptedAnyList(roles) == IsList(roles)

\* isinstance(roles, list) and len(roles) > 0
RolesAccepted(roles) == IsList(roles) /\ Len(roles.kids) > 0

\* The try block: the parsed roles, or ValueError("Parsed roles list is empty.")
RolesTry(got) == Checked(got, RolesAccepted(got.val))

\* The generator without its emptiness test and with nothing to fall back on.
RoleOptionsUnguarded(out) ==
    TryExcept(GenerateAndParse(out), JList(<<>>), TRUE)

ent_generate_role_options_from_ai(out) ==
    TryExcept(RolesTry(GenerateAndParse(out)), FallbackRoles, TRUE)

\* --------------------------------------------- ent_generate_day_simulation

Scene(time_of_day, short_title, narration) ==
    JObj(<<K("time_of_day"), K("short_title"), K("narration")>>,
         <<S(time_of_day), S(short_title), S(narration)>>)

FallbackSimulation ==
    JObj(<<K("scenes"), K("key_tasks"), K("key_challenges"), K("growth_path")>>,
         <<JList(<<
               Scene("9:00 AM", "Getting started",
                     "You arrive, check messages, and review today's plan."),
               Scene("1:00 PM", "In the middle of the action",
                     "You support the team during a busy part of the day, keeping things organized."),
               Scene("5:00 PM", "Wrap up and reflect",
                     "You wrap up, note what went well, and think about how you can grow in this role.")>>),
           JList(<<S("Support more senior teammates with planning and coordination."),
                   S("Communicate clearly with people in different roles."),
                   S("Stay flexible when plans change.")>>),
           JList(<<S("Balancing multiple tasks at once."),
                   S("Handling last-minute changes calmly."),
                   S("Learning the tools and workflows used by the team.")>>),
           JList(<<S("Year 1: Learn the basics and find your strengths."),
                   S("Year 3: Take ownership of small projects or parts of a show."),
                   S("Year 5: Lead bigger projects and mentor newer teammates.")>>)>>)

\* if isinstance(sim, list): sim = {"scenes": sim}
WrapBareList(sim) == IF IsList(sim) THEN JObj(<<K("scenes")>>, <<sim>>) ELSE sim

\* The try block: the simulation, or
\* ValueError("Simulation JSON is not an object or list.")
Wrapped(got) == [exc |-> got.exc, val |-> WrapBareList(got.val)]
SimulationChecked(got) == Checked(got, IsDict(got.val))
SimulationTry(got) == SimulationChecked(Wrapped(got))

ent_generate_day_simulation(out) ==
    TryExcept(SimulationTry(GenerateAndParse(out)), FallbackSimulation, TRUE)

\* -------------------------------------------------------- call_identity_ai

SliderMin == 0
SliderMax == 10

\* The naming with strict thresholds (> 7, < 3).
ArchetypeNameStrict(chaos_val) ==
    IF chaos_val > 7 THEN "Vibe Curator in Progress"
    ELSE IF chaos_val < 3 THEN "Vision Architect in Progress"
    ELSE "Emerging Creator"

\* The fallback archetype: named from the chaos/structure slider alone.
ArchetypeName(chaos_val) ==
    IF chaos_val >= 7 THEN "Vibe Curator in Progress"
    ELSE IF chaos_val <= 3 THEN "Vision Architect in Progress"
    ELSE "Emerging Creator"

ArchetypeTagline(chaos_val) ==
    IF chaos_val >= 7 THEN "You like energy, mood, and letting things flow."
    ELSE IF chaos_val <= 3
    THEN "You like plans, structure, and knowing the why behind things."
    ELSE "You're still exploring, but your creative spark is real."

FallbackArchetype(chaos_val) ==
    JObj(<<K("name"), K("tagline"), K("description")>>,
         <<S(ArchetypeName(chaos_val)), S(ArchetypeTagline(chaos_val)),
           S("Based on your answers, you enjoy playing with ideas and noticing details in your own way.")>>)

\* env_summary, with the sentence the solo/team slider adds.
EnvSummary(solo_team) ==
    <<"You'd likely do well in a space that gives you room to learn, experiment, and contribute without all the pressure on you at once.">>
    \o (IF solo_team >= 7
        THEN <<" ", "You seem to recharge around people and might enjoy small, tight-knit creative teams.">>
        ELSE IF solo_team <= 3
        THEN <<" ", "You might prefer roles where you can focus quietly and then share your work.">>
        ELSE <<>>)

SuggestedRole(role_name, why) ==
    JObj(<<K("role_name"), K("why_it_fits")>>, <<S(role_name), S(why)>>)

FallbackIdentity(identity_data) ==
    LET chaos_val == identity_data.sliders.chaos_structure
        solo_team == identity_data.sliders.solo_team
    IN  JObj(<<K("spark_archetypes"), K("creative_environment"), K("suggested_roles")>>,
             <<JList(<<FallbackArchetype(chaos_val)>>),
               JObj(<<K("summary"), K("example_spaces")>>,
                    <<JStr(EnvSummary(solo_team)),
                      JList(<<S("A small content studio where you can learn from others"),
                              S("A quiet edit bay or creator corner where you can focus")>>)>>),
               JList(<<SuggestedRole("Content Assistant / Editor-in-training",
                                     "You can experiment, learn tools, and slowly take on more responsibility without needing to be perfect on day one."),
                       SuggestedRole("Production Helper on small shoots",
                                     "You'll see many parts of the process and figure out what you like best.")>>)>>)

\* The try block: the parsed object, or
\* ValueError("Identity AI output is not a JSON object.")
IdentityTry(got) == Checked(got, IsDict(got.val))

call_identity_ai(identity_data, out) ==
    TryExcept(IdentityTry(GenerateAndParse(out)), FallbackIdentity(identity_data), FALSE)

\* ------------------------------------------------------ call_confidence_ai

\* The weakness lines of the model and what  needle in w.lower()  is for them.
WeaknessLines == {<<"I'm shy">>, <<"I OVERTHINK">>, <<"I get overwhelmed easily">>}
LowerHas(w, needle) ==
    \/ needle = "shy" /\ w = <<"I'm shy">>
    \/ needle = "overthink" /\ w = <<"I OVERTHINK">>

Strs(names) == JList([i \in 1..Len(names) |-> S(names[i])])

FallbackReframe(w) ==
    LET strength ==
            IF LowerHas(w, "shy")
            THEN "You're observant and good at listening, which is powerful in backstage and editing roles."
            ELSE IF LowerHas(w, "overthink")
            THEN "You think things through, which helps with planning and quality control."
            ELSE "You care deeply and notice things others might miss."
        roles ==
            IF LowerHas(w, "shy")
            THEN <<"Video editor", "Continuity checker", "Researcher">>
            ELSE IF LowerHas(w, "overthink")
            THEN <<"Assistant producer", "Script reviewer", "Social media planner">>
            ELSE <<"Content editor", "Research assistant for shows",
                   "Behind-the-scenes coordinator">>
    IN  JObj(<<K("original"), K("strength"), K("example_roles"), K("encouragement")>>,
             <<JStr(w), S(strength), Strs(roles),
               S("Your way of being has value; you don't need to become someone else to contribute creatively.")>>)

FallbackActions(b) ==
    JObj(<<K("barrier"), K("actions")>>,
         <<JStr(b),
           Strs(<<"Write down one tiny creative action you can do in 10 minutes this week.",
                  "Find one free online resource (YouTube, TikTok, etc.) that teaches a skill you care about.">>)>>)

\* conf_data: weaknesses (texts), barriers (texts), extra_barrier (a text,
\* the empty text standing for None).
FallbackConfidence(conf_data) ==
    LET weaknesses == conf_data.weaknesses
        all_barriers == IF Len(conf_data.extra_barrier) > 0
                        THEN Append(conf_data.barriers, conf_data.extra_barrier)
                        ELSE conf_data.barriers
    IN  JObj(<<K("weakness_reframes"), K("barrier_action_plan"), K("general_boost")>>,
             <<JList([i \in 1..Len(weaknesses) |-> FallbackReframe(weaknesses[i])]),
               JList([i \in 1..Len(all_barriers) |-> FallbackActions(all_barriers[i])]),
               S("Even if things feel slow or blocked, every tiny experiment counts. You're not behind; you're just starting.")>>)

\* The try block: the parsed object, or
\* ValueError("Confidence AI output is not a JSON object.")
ConfidenceTry(got) == Checked(got, IsDict(got.val))

call_confidence_ai(conf_data, out) ==
    TryExcept(ConfidenceTry(GenerateAndParse(out)), FallbackConfidence(conf_data), FALSE)

\* ------------------------------------------------------------------ state

VARIABLES
    \* -- recovery of one model reply (safe_json_from_model) --
    jcase,       \* how the reply text was put together
    raw,         \* the reply text handed to safe_json_from_model
    recovered,   \* its outcome
    \* -- one call of a generator (model call + recovery + fallback) --
    gen_call,    \* the generator, what call_bedrock does, the caller's data
    gen_out,     \* what the generator handed back
    \* -- the Day-in-the-Life module (st.session_state and the browser) --
    ent_stage,           \* "landing" | "quiz" | "roles" | "simulation"
    ent_role_options,    \* the list of roles
    ent_selected_role,   \* the chosen role, JNull for None
    ent_simulations,     \* role name -> stored simulation
    ent_page,            \* what the last run of the script put on the screen
    ent_calls,           \* history: role name -> calls of
                         \* ent_generate_day_simulation since the last start over
    ent_last,            \* history: the handler the last run executed
    \* -- the Spark Hub (st.session_state, the widgets and the browser) --
    identity_raw,        \* what the Identity Lab sent last, unset for None
    identity_result,     \* what call_identity_ai returned last, JNull for None
    confidence_raw,      \* what the Confidence Lab collected last
    confidence_result,   \* what call_confidence_ai returned last
    spark_widgets,       \* the values of the sliders and of the Confidence Lab inputs
    spark_page,          \* what the last run drew and did
    \* -- the Voice Copilot (st.session_state, the widgets, the pipeline) --
    cop_session_id,      \* session_id, 0 while it is not in session_state
    cop_history,         \* history, the list of turns
    cop_typed,           \* the text input typed_input
    cop_audio,           \* what mic_recorder holds
    cop_issued,          \* how many session ids uuid4 has produced
    cop_retired,         \* history: the session ids a reset has replaced
    cop_job,             \* the voice turn of the current run
    cop_run,             \* what the last run drew and did
    \* -- the navigation shell of app.py (st.session_state, the URL, the sidebar) --
    go_next,             \* the redirect flag: "absent", "True" or "False"
    shell_query,         \* the query parameter next of the URL
    shell_choice,        \* the sidebar radio
    shell_page,          \* the page the last run rendered
    shell_renders,       \* history: how many interactions have rendered
    shell_last,          \* history: what the last interaction was
    \* -- one call of call_master_agent of voice_pipeline.py --
    agent_call,          \* user_text and what invoke_agent does
    agent_out,           \* what call_master_agent handed back
    \* -- one call of transcribe_audio of voice_pipeline.py --
    transcribe_call,     \* the recording, the line reached, the polls made, the outcome
    transcribe_job       \* the status of the transcription job at the service

jsonVars == <<jcase, raw, recovered>>
genVars == <<gen_call, gen_out>>
entVars == <<ent_stage, ent_role_options, ent_selected_role, ent_simulations,
             ent_page, ent_calls, ent_last>>
sparkVars == <<identity_raw, identity_result, confidence_raw, confidence_result,
               spark_widgets, spark_page>>

copVars == <<cop_session_id, cop_history, cop_typed, cop_audio, cop_issued,
             cop_retired, cop_job, cop_run>>

shellVars == <<go_next, shell_query, shell_choice, shell_page, shell_renders, shell_last>>

agentVars == <<agent_call, agent_out>>

transcribeVars == <<transcribe_call, transcribe_job>>

vars == <<jsonVars, genVars, entVars, sparkVars, copVars, shellVars, agentVars,
          transcribeVars>>

\* What each part of the program leaves alone.
notJson ==
    <<genVars, entVars, sparkVars, copVars, shellVars, agentVars, transcribeVars>>
notGen ==
    <<jsonVars, entVars, sparkVars, copVars, shellVars, agentVars, transcribeVars>>
notEnt ==
    <<jsonVars, genVars, sparkVars, copVars, shellVars, agentVars, transcribeVars>>
notSpark ==
    <<jsonVars, genVars, entVars, copVars, shellVars, agentVars, transcribeVars>>
notCop ==
    <<jsonVars, genVars, entVars, sparkVars, shellVars, agentVars, transcribeVars>>
notShell ==
    <<jsonVars, genVars, entVars, sparkVars, copVars, agentVars, transcribeVars>>
notTranscribe == <<jsonVars, genVars, entVars, sparkVars, copVars, shellVars, agentVars>>
notAgent ==
    <<jsonVars, genVars, entVars, sparkVars, copVars, shellVars, transcribeVars>>

\* ------------------------------------------- the Day-in-the-Life pages

\* A button on the screen: its key, and for the role buttons the index and
\* the role name that are part of the key.
Btn(key, idx, name) == [key |-> key, idx |-> idx, name |-> name]
StartButton == Btn("Start my ENT.XP journey", 0, <<>>)
QuizBackButton == Btn("ent_back_from_quiz", 0, <<>>)
ShowRolesButton == Btn("ent_show_roles", 0, <<>>)
RolesBackQuiz == Btn("ent_roles_back_quiz", 0, <<>>)
RolesBackQuiz2 == Btn("ent_roles_back_quiz2", 0, <<>>)
SimBackRoles == Btn("ent_sim_back_roles", 0, <<>>)
TryAnotherRole == Btn("ent_try_another_role", 0, <<>>)
StartOver == Btn("ent_start_over", 0, <<>>)

\* What a run of the script leaves on the screen: the page function that
\* ran, its buttons, the simulation it showed and for which role name (when
\* it got that far), whether the run stopped on an uncaught exception,
\* whether the simulation came out of ent_simulations, whether a toast was
\* raised.
Page(stage, buttons, name, sim, crashed, memo_hit, toast) ==
    [stage |-> stage, buttons |-> buttons, name |-> name, sim |-> sim,
     crashed |-> crashed, memo_hit |-> memo_hit, toast |-> toast]

LandingPage ==
    Page("landing", {StartButton}, <<>>, JNull, FALSE, FALSE, FALSE)
QuizPage ==
    Page("quiz", {QuizBackButton, ShowRolesButton}, <<>>, JNull, FALSE, FALSE, FALSE)

\* role["role_name"], role["one_sentence_hook"], role["why_it_fits_this_person"]
HasRoleFields(role) ==
    /\ HasKey(role, K("role_name"))
    /\ HasKey(role, K("one_sentence_hook"))
    /\ HasKey(role, K("why_it_fits_this_person"))

\* A card of the roles page: the three fields, and role_name.replace.
CardRenders(role) == HasRoleFields(role) /\ IsStr(Get(role, K("role_name"), JNull))

RoleName(role) == Get(role, K("role_name"), JNull).s

\* The cards drawn before the loop ends or stops on an exception.
Cards(roles) ==
    Greatest({n \in 0..Len(roles.kids) : \A i \in 1..n : CardRenders(roles.kids[i])})

SimButton(roles, i) == Btn("ent_sim", i, RoleName(roles.kids[i]))

RolesPage(roles) ==
    IF Len(roles.kids) = 0
    THEN Page("roles", {RolesBackQuiz}, <<>>, JNull, FALSE, FALSE, FALSE)
    ELSE Page("roles",
              {SimButton(roles, i) : i \in 1..Cards(roles)}
                  \cup (IF Cards(roles) = Len(roles.kids) THEN {RolesBackQuiz2} ELSE {}),
              <<>>, JNull, Cards(roles) < Len(roles.kids), FALSE, FALSE)

\* if not items: ... else: for item in items: item.get(...)
DictItems(items) ==
    \/ ~Truthy(items)
    \/ IsList(items) /\ \A i \in 1..Len(items.kids) : IsDict(items.kids[i])

\* "\n- ".join(bullets[:3])
BulletsRender(bullets) ==
    \/ ~Truthy(bullets)
    \/ IsStr(bullets)
    \/ IsList(bullets) /\ \A i \in 1..Len(bullets.kids) : i <= 3 => IsStr(bullets.kids[i])

\* if lines: "\n- ".join(lines)
Joinable(lines) ==
    \/ ~Truthy(lines)
    \/ IsStr(lines)
    \/ IsDict(lines)
    \/ IsList(lines) /\ \A i \in 1..Len(lines.kids) : IsStr(lines.kids[i])

\* The part of ent_show_simulation after the simulation was fetched.
SimRenders(sim) ==
    /\ DictItems(Get(sim, K("scenes"), JList(<<>>)))
    /\ BulletsRender(Get(sim, K("key_tasks"), JList(<<>>)))
    /\ BulletsRender(Get(sim, K("key_challenges"), JList(<<>>)))
    /\ Joinable(Get(sim, K("growth_path"), JList(<<>>)))

\* The fetch without its memo test: every visit generates.
AlwaysGenerate(role_name, sims) == TRUE

\* if role_name not in st.session_state.ent_simulations
NeedsGeneration(role_name, sims) == role_name \notin DOMAIN sims

\* ent_simulations[role_name] = sim
Store(sims, role_name, sim) ==
    [n \in DOMAIN sims \cup {role_name} |-> IF n = role_name THEN sim ELSE sims[n]]

NoSimulations == [n \in {} |-> JNull]
NoCalls == [n \in {} |-> 0]
Counted(calls, role_name) ==
    [n \in DOMAIN calls \cup {role_name} |->
        IF n = role_name
        THEN (IF n \in DOMAIN calls THEN calls[n] ELSE 0) + 1
        ELSE calls[n]]

SimRunOf(sims, calls, page) == [sims |-> sims, calls |-> calls, page |-> page]

\* The simulation was fetched or generated: the rest of the page.
SimShown(role_name, sims, calls, memo_hit, toast) ==
    SimRunOf(sims, calls,
             Page("simulation",
                  IF SimRenders(sims[role_name]) THEN {TryAnotherRole, StartOver} ELSE {},
                  role_name, sims[role_name], ~SimRenders(sims[role_name]),
                  memo_hit, toast))

\* The run stopped on an exception before anything was shown or stored.
SimCrashed(sims, calls) ==
    SimRunOf(sims, calls, Page("simulation", {}, <<>>, JNull, TRUE, FALSE, FALSE))

\* sim = ent_generate_day_simulation(role_name, fit_reason), stored
SimGenerated(role_name, sims, calls, res) ==
    IF res.raised THEN SimCrashed(sims, calls)
    ELSE SimShown(role_name, Store(sims, role_name, res.value), calls, FALSE, res.notice)

\* ent_show_simulation up to its bottom buttons, out being what call_bedrock
\* does if it is called.
ent_show_simulation(role, sims, calls, out) ==
    IF role = JNull
    THEN SimRunOf(sims, calls,
                  Page("simulation", {SimBackRoles}, <<>>, JNull, FALSE, FALSE, FALSE))
    ELSE IF ~HasRoleFields(role) \/ ~IsStr(Get(role, K("role_name"), JNull))
    THEN SimCrashed(sims, calls)
    ELSE IF NeedsGeneration(RoleName(role), sims)
    THEN SimGenerated(RoleName(role), sims, Counted(calls, RoleName(role)),
                      ent_generate_day_simulation(out))
    ELSE SimShown(RoleName(role), sims, calls, TRUE, FALSE)

EntIdle ==
    /\ ent_stage = "landing"
    /\ ent_role_options = JList(<<>>)
    /\ ent_selected_role = JNull
    /\ ent_simulations = NoSimulations
    /\ ent_page = LandingPage
    /\ ent_calls = NoCalls
    /\ ent_last = "none"

\* --------------------------------------------- replies handed to the recovery

Q(x) == <<QT, x, QT>>

\* JSON texts, each a sequence of units.
ObjA == <<"{">> \o Q("a") \o <<":", "1", "}">>
ObjASpaced == <<"{", " ">> \o Q("a") \o <<":", " ", "1", " ", "}">>
ObjAB == <<"{">> \o Q("a") \o <<":", "1", ",">> \o Q("b") \o <<":", "2", "}">>
ObjEmpty == <<"{", "}">>
ObjWithList == <<"{">> \o Q("a") \o <<":", "[", "1", "]", "}">>
ObjWithObj == <<"{">> \o Q("a") \o <<":", "{">> \o Q("b") \o <<":", "1", "}", "}">>
ListFlat == <<"[", "1", ",", "2", "]">>
ListEmpty == <<"[", "]">>
ListWithObj == <<"[">> \o ObjA \o <<"]">>
ListWithLists == <<"[", "[", "1", "]", ",", "[", "2", "]", "]">>
ListOfStr == <<"[">> \o Q("x") \o <<"]">>

FlatObjects == {ObjA, ObjASpaced, ObjAB}
ObjectPayloads == FlatObjects \cup {ObjEmpty, ObjWithList, ObjWithObj}
ListPayloads == {ListFlat, ListEmpty, ListWithObj, ListWithLists, ListOfStr}
Payloads == ObjectPayloads \cup ListPayloads

\* Prose without any bracket.
Prose == {<<"Sure">>, <<"Here", " ", "it", " ", "is", ":">>}

\* Units of the exhaustively enumerated short replies.
AnyUnits == {"[", "]", "{", "}", ",", "1", "x", FENCE}
MaxAnyLen == 3
AnyTexts == UNION {[1..n -> AnyUnits] : n \in 0..MaxAnyLen}

JCase(form, pre, p, q, post) ==
    [form |-> form, pre |-> pre, p |-> p, q |-> q, post |-> post]

JsonCases ==
    {JCase("bare", <<>>, p, <<>>, <<>>) : p \in Payloads}
    \cup {JCase("padded", <<>>, p, <<>>, <<>>) : p \in Payloads}
    \cup {JCase("prose", pre, p, <<>>, post) :
            pre \in Prose, p \in Payloads, post \in Prose}
    \cup {JCase("fence", pre, p, <<>>, post) :
            pre \in Prose \cup {<<>>}, p \in Payloads, post \in Prose \cup {<<>>}}
    \cup {JCase("tagged", <<>>, p, <<>>, <<>>) : p \in Payloads}
    \cup {JCase("two", pre, p, q, post) :
            pre \in Prose, p \in FlatObjects, q \in ObjectPayloads, post \in Prose}
    \cup {JCase("any", <<>>, p, <<>>, <<>>) : p \in AnyTexts}

RawOf(c) ==
    CASE c.form = "bare"   -> c.p
      [] c.form = "padded" -> <<" ">> \o c.p \o <<" ", " ">>
      [] c.form = "prose"  -> c.pre \o <<" ">> \o c.p \o <<" ">> \o c.post
      [] c.form = "fence"  -> c.pre \o <<FENCE>> \o c.p \o <<FENCE>> \o c.post
      [] c.form = "tagged" -> <<FENCE, "json", " ">> \o c.p \o <<" ", FENCE>>
      [] c.form = "two"    ->
            c.pre \o <<" ">> \o c.p \o <<" ">> \o c.q \o <<" ">> \o c.post
      [] OTHER             -> c.p

NoCase == JCase("none", <<>>, <<>>, <<>>, <<>>)
Pending == [done |-> FALSE, ok |-> FALSE, val |-> JNull]
Done(r) == [done |-> TRUE, ok |-> r.ok, val |-> r.val]

JsonIdle ==
    /\ jcase = NoCase
    /\ raw = <<>>
    /\ recovered = Pending

\* ------------------------------------------------- replies of the model

RolesGood ==
    JList(<<RoleOption("Sound Designer", "You shape how a show sounds.",
                       "You like music and editing."),
            RoleOption("Tour Manager", "You keep a tour moving.",
                       "You like planning and people.")>>)

SimGood ==
    JObj(<<K("scenes"), K("key_tasks")>>,
         <<JList(<<Scene("9:15 AM", "Kickoff", "You review the plan.")>>),
           Strs(<<"Mix a track">>)>>)

IdentityGood ==
    JObj(<<K("spark_archetypes"), K("creative_environment"), K("suggested_roles")>>,
         <<JList(<<JObj(<<K("name")>>, <<S("Story Weaver")>>)>>),
           JObj(<<K("summary")>>, <<S("A writers room.")>>),
           JList(<<SuggestedRole("Script researcher", "You notice details.")>>)>>)

ConfidenceGood ==
    JObj(<<K("weakness_reframes"), K("barrier_action_plan"), K("general_boost")>>,
         <<JList(<<>>), JList(<<>>), S("Small steps count.")>>)

InProse(t) == <<"Sure", ":", " ">> \o t \o <<" ", "Hope this helps">>
InTaggedFence(t) == <<FENCE, "json", NL>> \o t \o <<NL, FENCE>>

\* Replies that are not what the prompt asked for.
OddReplies ==
    {<<>>, <<"Sorry, I cannot help with that.">>, <<"1">>, <<"null">>,
     ListEmpty, ObjEmpty, <<"[", "1", "]">>,
     Dumps(JObj(<<K("scenes")>>, <<JNum(<<"1">>)>>)),
     Dumps(JList(<<JObj(<<K("role_name")>>, <<S("Sound Designer")>>)>>))}

GoodReplies == {Dumps(RolesGood), Dumps(SimGood), Dumps(IdentityGood), Dumps(ConfidenceGood)}

Replies ==
    GoodReplies \cup {InProse(t) : t \in GoodReplies}
    \cup {InTaggedFence(t) : t \in GoodReplies} \cup OddReplies

BedrockOutcomes == {BedrockRaises} \cup {BedrockReturns(t) : t \in Replies}

\* ---------------------------------------------------- one generator call

Sliders(c1, c2, c3, c4, c5, c6) ==
    [chaos_structure |-> c1, solo_team |-> c2, expression_observation |-> c3,
     logic_emotion |-> c4, people_backstage |-> c5, bigpicture_detail |-> c6]

IdentityData(sl) == [sliders |-> sl]
ConfData(weaknesses, barriers, extra_barrier) ==
    [weaknesses |-> weaknesses, barriers |-> barriers, extra_barrier |-> extra_barrier]

SliderRange == SliderMin..SliderMax
NoIdentity == IdentityData(Sliders(5, 5, 5, 5, 5, 5))
NoConf == ConfData(<<>>, <<>>, <<>>)

ConfInputs ==
    {ConfData(w, b, e) :
        w \in {<<>>, <<(<<"I'm shy">>)>>, <<(<<"I OVERTHINK">>), (<<"I get overwhelmed easily">>)>>},
        b \in {<<>>, <<(<<"Money">>)>>, <<(<<"Money">>), (<<"Time">>)>>},
        e \in {<<>>, <<"My family does not get it">>}}

\* The Identity Lab is swept over every value of the two sliders its fallback
\* reads, the other four sitting together at either end of the scale.
IdentityInputs ==
    {IdentityData(Sliders(c1, c2, r, r, r, r)) :
        c1 \in SliderRange, c2 \in SliderRange, r \in {SliderMin, SliderMax}}

IdentityOutcomes ==
    {BedrockRaises, BedrockReturns(<<"Sorry, I cannot help with that.">>),
     BedrockReturns(<<"[", "1", "]">>), BedrockReturns(InProse(Dumps(IdentityGood)))}

GenCall(fn, out, identity, conf) ==
    [fn |-> fn, out |-> out, identity |-> identity, conf |-> conf]

GenCalls ==
    {GenCall(fn, out, NoIdentity, NoConf) :
        fn \in {"roles", "simulation"}, out \in BedrockOutcomes}
    \cup {GenCall("identity", out, d, NoConf) :
            out \in IdentityOutcomes, d \in IdentityInputs}
    \cup {GenCall("confidence", out, NoIdentity, d) :
            out \in BedrockOutcomes, d \in ConfInputs}

NoCall == GenCall("none", BedrockRaises, NoIdentity, NoConf)
NotCalled == [done |-> FALSE, res |-> Propagated]
Returned(res) == [done |-> TRUE, res |-> res]

Generate(c) ==
    CASE c.fn = "roles"      -> ent_generate_role_options_from_ai(c.out)
      [] c.fn = "simulation" -> ent_generate_day_simulation(c.out)
      [] c.fn = "identity"   -> call_identity_ai(c.identity, c.out)
      [] OTHER               -> call_confidence_ai(c.conf, c.out)

GenIdle ==
    /\ gen_call = NoCall
    /\ gen_out = NotCalled

\* ------------------------------------------------------- the Spark Hub page

\* A session_state slot holding None, or a value.
Unset == [none |-> TRUE, data |-> NoConf]
Holding(d) == [none |-> FALSE, data |-> d]

Widgets(sliders, weaknesses, barriers, extra_barrier) ==
    [sliders |-> sliders, weaknesses |-> weaknesses, barriers |-> barriers,
     extra_barrier |-> extra_barrier]

NonBlank(w) == w # <<>>

\* [w.strip() for w in weaknesses_text.split("\n") if w.strip()]
WeaknessList(weaknesses_text) ==
    SelectSeq([i \in 1..Len(Split(weaknesses_text, NL)) |->
                  Strip(Split(weaknesses_text, NL)[i])],
              NonBlank)

\* conf_raw; extra_barrier.strip() or None, the empty text standing for None.
ConfRaw(w) == ConfData(WeaknessList(w.weaknesses), w.barriers, Strip(w.extra_barrier))

\* The validation test with the extra barrier taken as typed.
NothingSharedUnstripped(weakness_list, barriers, extra_barrier) ==
    Len(weakness_list) = 0 /\ Len(barriers) = 0 /\ extra_barrier = <<>>

\* not weakness_list and not barriers and not extra_barrier.strip()
NothingShared(weakness_list, barriers, extra_barrier) ==
    Len(weakness_list) = 0 /\ Len(barriers) = 0 /\ Strip(extra_barrier) = <<>>

\* The part of the Identity Lab tab that shows identity_result.
IdentityRenders(result) ==
    /\ DictItems(Get(result, K("spark_archetypes"), JList(<<>>)))
    /\ IsDict(Get(result, K("creative_environment"), JObj(<<>>, <<>>)))
    /\ Joinable(Get(Get(result, K("creative_environment"), JObj(<<>>, <<>>)),
                    K("example_spaces"), JList(<<>>)))
    /\ DictItems(Get(result, K("suggested_roles"), JList(<<>>)))

\* The Identity Lab tab ends without an exception, so that the Confidence
\* Lab tab after it is drawn.
Tab1Renders(result) == ~Truthy(result) \/ IdentityRenders(result)

\* What a run of spark_main drew and did: whether the Confidence Lab tab was
\* drawn, the handler that ran, whether the validation warning was shown, the
\* generators that were called (each calls call_bedrock once).
SparkPage(result, handler, warning, calls) ==
    [tab2 |-> Tab1Renders(result), handler |-> handler, warning |-> warning,
     calls |-> calls]

SparkIdle ==
    /\ identity_raw = Unset
    /\ identity_result = JNull
    /\ confidence_raw = Unset
    /\ confidence_result = JNull
    /\ spark_widgets = Widgets(NoIdentity.sliders, <<>>, <<>>, <<>>)
    /\ spark_page = SparkPage(JNull, "none", FALSE, <<>>)

\* ------------------------------------------------------ the voice pipeline

\* What mic_recorder holds: nothing, or a recording whose header reads or
\* does not, with its number of frames and its frame rate.
NoAudio == [present |-> FALSE, readable |-> FALSE, frames |-> 0, rate |-> 0]
Wav(readable, frames, rate) ==
    [present |-> TRUE, readable |-> readable, frames |-> frames, rate |-> rate]

\* get_wav_duration_seconds: the exception it ends in, "none" when it
\* returns frames / float(rate).
DurationError(audio) ==
    IF ~audio.readable THEN "wave.Error"
    ELSE IF audio.rate = 0 THEN "ZeroDivisionError"
    ELSE "none"

\* duration < 0.5
TooShort(audio) == 2 * audio.frames < audio.rate

\* The try block of transcribe_audio: the exception raised in it.
DurationTry(audio) ==
    IF DurationError(audio) # "none" THEN DurationError(audio)
    ELSE IF TooShort(audio) THEN "ValueError"     \* Audio too short
    ELSE "none"

\* The handler of that try block: except Exception: duration = None
DurationExcept(exc) == exc # "none"

\* The exception that leaves the duration check of transcribe_audio.
DurationGuard(audio) ==
    IF DurationExcept(DurationTry(audio)) THEN "none" ELSE DurationTry(audio)

AgentRaises == [raised |-> TRUE, text |-> <<>>]
AgentReturns(t) == [raised |-> FALSE, text |-> t]
AgentReply(raised, text, called) == [raised |-> raised, text |-> text, called |-> called]

\* The return without its alternative: completion_text.strip() alone.
ReplyStripped(text) == Strip(text)

\* completion_text.strip() or the apology
ReplyOrApology(text) ==
    IF Strip(text) # <<>> THEN Strip(text)
    ELSE <<"Sorry, I couldn't generate a reply this time.">>

\* call_master_agent(user_text, session_id), outcome being what invoke_agent does.
call_master_agent(user_text, outcome) ==
    IF user_text = <<>>
    THEN AgentReply(FALSE, <<"I didn't catch that. Could you please repeat your answer?">>,
                    FALSE)
    ELSE IF outcome.raised THEN AgentReply(TRUE, <<>>, TRUE)
    ELSE AgentReply(FALSE, ReplyOrApology(outcome.text), TRUE)

\* The voice turn of a run: the recording, the session id handed to
\* handle_voice_interaction, the polls made, the remote operations done so
\* far in their order, the exception that ended the turn.
Job(active, audio, sid, polls, ops, error) ==
    [active |-> active, audio |-> audio, sid |-> sid, polls |-> polls,
     ops |-> ops, error |-> error]
NoJob == Job(FALSE, NoAudio, 0, 0, <<>>, "none")

\* ------------------------------------------------------- the Voice Copilot

ResetButton == "Reset conversation"
SendTextButton == "Send text"
MicRecorder == "mic1"
SendVoiceButton == "Send voice to agent"

Turn(role, text, audio_path) == [role |-> role, text |-> text, audio_path |-> audio_path]

\* user_text or the placeholder
OrEllipsis(text) == IF text # <<>> THEN text ELSE <<"(...)">>

\* What voice_copilot_tab draws when it runs to its end.
Drawn(audio) ==
    {ResetButton, SendTextButton, MicRecorder}
        \cup (IF audio.present THEN {SendVoiceButton} ELSE {})

\* What a run did: the handler, what it left on the screen, the exception
\* that stopped it, the session ids its agent calls carried, and for a reset
\* the session id it replaced.
Run(handler, buttons, error, agent_sids, old_sid) ==
    [handler |-> handler, buttons |-> buttons, error |-> error,
     agent_sids |-> agent_sids, old_sid |-> old_sid]

\* str(uuid.uuid4()): a value no earlier call has returned.
NewSessionId(old, issued) == issued + 1

\* A reset that leaves the session id as it is.
ResetKeepsSessionId(old, issued) == old

\* st.session_state.session_id = str(uuid.uuid4()), in the reset handler
ResetSessionId(old, issued) == NewSessionId(old, issued)

CopIdle ==
    /\ cop_session_id = 0
    /\ cop_history = <<>>
    /\ cop_typed = <<>>
    /\ cop_audio = NoAudio
    /\ cop_issued = 0
    /\ cop_retired = {}
    /\ cop_job = NoJob
    /\ cop_run = Run("none", {}, "none", <<>>, 0)

\* ------------------------------------------ the navigation shell of app.py

\* A text as its characters, for the query parameter.
TrueText == <<"t", "r", "u", "e">>
FalseText == <<"f", "a", "l", "s", "e">>

\* str.lower() on the characters the query values are made of.
LowerChar(c) ==
    CASE c = "T" -> "t" [] c = "R" -> "r" [] c = "U" -> "u" [] c = "E" -> "e"
      [] OTHER -> c
LowerText(t) == [i \in DOMAIN t |-> LowerChar(t[i])]

\* The URL: without the parameter next, or with a value for it.
NoQuery == [present |-> FALSE, value |-> <<>>]
Query(value) == [present |-> TRUE, value |-> value]

\* params.get("next", ["false"]): st.query_params maps a key to its value as
\* a str; the default, for a URL without the key, is a list of one str.
QueryGet(query) ==
    IF query.present THEN [list |-> FALSE, str |-> query.value]
    ELSE [list |-> TRUE, str |-> FalseText]

\* [0]: the first item of the list, the first character of the str,
\* IndexError on an empty str.
First(got) ==
    IF got.list THEN [err |-> FALSE, str |-> got.str]
    ELSE IF got.str = <<>> THEN [err |-> TRUE, str |-> <<>>]
    ELSE [err |-> FALSE, str |-> <<got.str[1]>>]

\* The module-level statement of lines 26-28 raises.
QueryRaises(query) == First(QueryGet(query)).err

\* params.get("next", ["false"])[0].lower() == "true"
QuerySaysNext(query) ==
    /\ ~QueryRaises(query)
    /\ LowerText(First(QueryGet(query)).str) = TrueText

\* The sidebar radio and the page main renders for each of its options.
Choices == {"Home", "Day-in-the-Life Simulation", "Spark Hub", "Multi Agent Chatbot"}
PageOf(choice) ==
    CASE choice = "Home" -> "avatar_selector_page"
      [] choice = "Day-in-the-Life Simulation" -> "ent_main"
      [] choice = "Spark Hub" -> "spark_main"
      [] OTHER -> "voice_copilot_tab"

\* What a run of the script leaves: the page and the flag.
Rendered(page, flag) == [page |-> page, go_next |-> flag]

\* main with the flag left as it is after the copilot was rendered.
MainKeepsFlag(flag, choice) ==
    IF flag = "True" THEN Rendered("voice_copilot_tab", flag)
    ELSE Rendered(PageOf(choice), flag)

\* main: the copilot when the flag is set, which it then clears; the page of
\* the sidebar choice otherwise.
Main(flag, choice) ==
    IF flag = "True" THEN Rendered("voice_copilot_tab", "False")
    ELSE Rendered(PageOf(choice), flag)

\* if "go_next" not in st.session_state: st.session_state.go_next = False
FlagDefault(flag) == IF flag = "absent" THEN "False" ELSE flag

\* One run of app.py: the module-level statements, then main.
Script(flag, query, choice) ==
    IF QueryRaises(query) THEN Rendered("IndexError", FlagDefault(flag))
    ELSE Main(IF QuerySaysNext(query) THEN "True" ELSE FlagDefault(flag), choice)

ShellIdle ==
    /\ go_next = "absent"
    /\ shell_query = NoQuery
    /\ shell_choice = "Home"
    /\ shell_page = "none"
    /\ shell_renders = 0
    /\ shell_last = "none"

\* ----------------------------------- the completion of call_master_agent

\* One event of the completion stream: whether it has a chunk, whether the
\* chunk has bytes, and the text the bytes decode to.
Event(chunk, bytes, text) == [chunk |-> chunk, bytes |-> bytes, text |-> text]

\* What invoke_agent does: it raises, or it returns the stream.
InvokeRaises == [raised |-> TRUE, events |-> <<>>]
InvokeReturns(events) == [raised |-> FALSE, events |-> events]

\* for event in response.get("completion", []): events without a chunk or
\* without bytes are passed over, the text of the others is added at the end.
RECURSIVE Completion(_, _, _)
Completion(events, i, completion_text) ==
    IF i > Len(events) THEN completion_text
    ELSE IF ~events[i].chunk \/ ~events[i].bytes \/ events[i].text = <<>>
    THEN Completion(events, i + 1, completion_text)
    ELSE Completion(events, i + 1, completion_text \o events[i].text)

\* invoke_agent and the loop over its stream, as the outcome call_master_agent
\* works on.
Streamed(invoked) ==
    IF invoked.raised THEN AgentRaises
    ELSE AgentReturns(Completion(invoked.events, 1, <<>>))

AgentCall(user_text, invoked) == [user_text |-> user_text, invoked |-> invoked]
NoAgentCall == AgentCall(<<>>, InvokeRaises)
AgentPending == [done |-> FALSE, reply |-> AgentReply(TRUE, <<>>, FALSE)]
AgentDone(reply) == [done |-> TRUE, reply |-> reply]

AgentIdle ==
    /\ agent_call = NoAgentCall
    /\ agent_out = AgentPending

\* ------------------------------------------- the call of transcribe_audio

\* A call of transcribe_audio: its recording, the line it has reached, the
\* number of its polls, the exception it raised and the text it returned.
Call(audio, pc, polls, error, text) ==
    [audio |-> audio, pc |-> pc, polls |-> polls, error |-> error, text |-> text]

TranscribeIdle ==
    /\ transcribe_call = Call(NoAudio, "none", 0, "none", <<>>)
    /\ transcribe_job = "none"

\* The parts a specification leaves idle.
IdleButJson ==
    GenIdle /\ EntIdle /\ SparkIdle /\ CopIdle /\ ShellIdle /\ AgentIdle /\ TranscribeIdle
IdleButGen ==
    JsonIdle /\ EntIdle /\ SparkIdle /\ CopIdle /\ ShellIdle /\ AgentIdle /\ TranscribeIdle
IdleButEnt ==
    JsonIdle /\ GenIdle /\ SparkIdle /\ CopIdle /\ ShellIdle /\ AgentIdle /\ TranscribeIdle
IdleButSpark ==
    JsonIdle /\ GenIdle /\ EntIdle /\ CopIdle /\ ShellIdle /\ AgentIdle /\ TranscribeIdle
IdleButCop ==
    JsonIdle /\ GenIdle /\ EntIdle /\ SparkIdle /\ ShellIdle /\ AgentIdle /\ TranscribeIdle
IdleButShell ==
    JsonIdle /\ GenIdle /\ EntIdle /\ SparkIdle /\ CopIdle /\ AgentIdle /\ TranscribeIdle
IdleButTranscribe ==
    JsonIdle /\ GenIdle /\ EntIdle /\ SparkIdle /\ CopIdle /\ ShellIdle /\ AgentIdle
IdleButAgent ==
    JsonIdle /\ GenIdle /\ EntIdle /\ SparkIdle /\ CopIdle /\ ShellIdle /\ TranscribeIdle

GenInit ==
    /\ IdleButGen
    /\ gen_call \in GenCalls
    /\ gen_out = NotCalled

\* One call of a generator.
GenRun ==
    /\ gen_call.fn # "none"
    /\ ~gen_out.done
    /\ gen_out' = Returned(Generate(gen_call))
    /\ UNCHANGED <<gen_call, notGen>>

SpecGen == GenInit /\ [][GenRun]_vars

JsonInit ==
    /\ jcase \in JsonCases
    /\ raw = RawOf(jcase)
    /\ recovered = Pending
    /\ IdleButJson

\* One call of safe_json_from_model on the reply.
JsonRecover ==
    /\ jcase.form # "none"
    /\ ~recovered.done
    /\ recovered' = Done(safe_json_from_model(raw))
    /\ UNCHANGED <<jcase, raw, notJson>>

SpecJson == JsonInit /\ [][JsonRecover]_vars

\* ------------------------------------------- the Day-in-the-Life module

\* Replies of the model to the role prompt: two roles, one of them under a
\* name the fallback list uses too.
EntRolesReply ==
    JList(<<RoleOption("Sound Designer", "You shape how a show sounds.",
                       "You like music and editing."),
            RoleOption("Assistant Creative Producer", "You keep shoots on track.",
                       "You like planning.")>>)

\* A reply whose second entry is no role object.
EntRolesBroken ==
    JList(<<RoleOption("Tour Manager", "You keep a tour moving.",
                       "You like planning and people."),
            JNum(<<"1">>)>>)

EntRoleOutcomes ==
    {BedrockRaises, BedrockReturns(Dumps(EntRolesReply)),
     BedrockReturns(Dumps(EntRolesBroken)), BedrockReturns(ListEmpty)}

\* Replies to the simulation prompt; the last one holds scenes that are no list.
EntSimOutcomes ==
    {BedrockRaises, BedrockReturns(Dumps(SimGood)),
     BedrockReturns(Dumps(JObj(<<K("scenes")>>, <<JNum(<<"1">>)>>)))}

EntInit ==
    /\ EntIdle
    /\ IdleButEnt

\* The page function ent_main calls for the stage, when no button of it is
\* pressed in the run.
EntShow(out) ==
    CASE ent_stage = "quiz"  -> SimRunOf(ent_simulations, ent_calls, QuizPage)
      [] ent_stage = "roles" ->
            SimRunOf(ent_simulations, ent_calls, RolesPage(ent_role_options))
      [] ent_stage = "simulation" ->
            ent_show_simulation(ent_selected_role, ent_simulations, ent_calls, out)
      [] OTHER -> SimRunOf(ent_simulations, ent_calls, LandingPage)

\* A button can be pressed when it is on the screen; its handler runs when
\* the script draws it again in the run the press starts.
Pressed(button, drawn) == button \in ent_page.buttons /\ button \in drawn.buttons

\* Start my ENT.XP journey
EntStart ==
    /\ ent_stage = "landing"
    /\ Pressed(StartButton, LandingPage)
    /\ ent_stage' = "quiz"
    /\ ent_page' = LandingPage
    /\ ent_last' = "start"
    /\ UNCHANGED <<ent_role_options, ent_selected_role, ent_simulations, ent_calls>>
    /\ UNCHANGED notEnt

\* Back, on the quiz
EntQuizBack ==
    /\ ent_stage = "quiz"
    /\ Pressed(QuizBackButton, QuizPage)
    /\ ent_stage' = "landing"
    /\ ent_page' = QuizPage
    /\ ent_last' = "quiz_back"
    /\ UNCHANGED <<ent_role_options, ent_selected_role, ent_simulations, ent_calls>>
    /\ UNCHANGED notEnt

\* roles = ent_generate_role_options_from_ai(profile); stored; ent_go_to("roles")
QuizSubmitted(res) ==
    IF res.raised
    THEN /\ ent_page' = [QuizPage EXCEPT !.crashed = TRUE]
         /\ UNCHANGED <<ent_role_options, ent_stage>>
    ELSE /\ ent_role_options' = res.value
         /\ ent_stage' = "roles"
         /\ ent_page' = [QuizPage EXCEPT !.toast = res.notice]

\* Show possible roles
EntQuizSubmit ==
    /\ ent_stage = "quiz"
    /\ Pressed(ShowRolesButton, QuizPage)
    /\ \E out \in EntRoleOutcomes :
            QuizSubmitted(ent_generate_role_options_from_ai(out))
    /\ ent_last' = "quiz_submit"
    /\ UNCHANGED <<ent_selected_role, ent_simulations, ent_calls>>
    /\ UNCHANGED notEnt

\* The run st.experimental_rerun() starts after a role was chosen.
RoleSelected(run) ==
    /\ ent_simulations' = run.sims
    /\ ent_calls' = run.calls
    /\ ent_page' = run.page

\* A handler that goes to the simulation without storing the chosen role.
EntSelectRoleUnstored ==
    /\ ent_stage = "roles"
    /\ \E i \in 1..Cards(ent_role_options) :
          /\ Pressed(SimButton(ent_role_options, i), RolesPage(ent_role_options))
          /\ ent_stage' = "simulation"
          /\ \E out \in EntSimOutcomes :
                RoleSelected(ent_show_simulation(ent_selected_role,
                                                 ent_simulations, ent_calls, out))
    /\ ent_last' = "select"
    /\ UNCHANGED <<ent_role_options, ent_selected_role>>
    /\ UNCHANGED notEnt

\* Try a day as <role_name>
EntSelectRole ==
    /\ ent_stage = "roles"
    /\ \E i \in 1..Cards(ent_role_options) :
          /\ Pressed(SimButton(ent_role_options, i), RolesPage(ent_role_options))
          /\ ent_selected_role' = ent_role_options.kids[i]
          /\ ent_stage' = "simulation"
          /\ \E out \in EntSimOutcomes :
                RoleSelected(ent_show_simulation(ent_role_options.kids[i],
                                                 ent_simulations, ent_calls, out))
    /\ ent_last' = "select"
    /\ UNCHANGED ent_role_options
    /\ UNCHANGED notEnt

\* A way back to the quiz that drops the roles on the way.
EntRolesBackClears ==
    /\ ent_stage = "roles"
    /\ Pressed(IF Len(ent_role_options.kids) = 0 THEN RolesBackQuiz ELSE RolesBackQuiz2,
               RolesPage(ent_role_options))
    /\ ent_stage' = "quiz"
    /\ ent_role_options' = JList(<<>>)
    /\ ent_page' = RolesPage(ent_role_options)
    /\ ent_last' = "roles_back"
    /\ UNCHANGED <<ent_selected_role, ent_simulations, ent_calls>>
    /\ UNCHANGED notEnt

\* Back to quiz: the button under the warning when there are no roles, the
\* button under the cards otherwise.
EntRolesBack ==
    /\ ent_stage = "roles"
    /\ Pressed(IF Len(ent_role_options.kids) = 0 THEN RolesBackQuiz ELSE RolesBackQuiz2,
               RolesPage(ent_role_options))
    /\ ent_stage' = "quiz"
    /\ ent_page' = RolesPage(ent_role_options)
    /\ ent_last' = "roles_back"
    /\ UNCHANGED <<ent_role_options, ent_selected_role, ent_simulations, ent_calls>>
    /\ UNCHANGED notEnt

\* The page is drawn, then the pressed button goes to the roles.
ToRoles(run) ==
    /\ Pressed(IF ent_selected_role = JNull THEN SimBackRoles ELSE TryAnotherRole,
               run.page)
    /\ ent_simulations' = run.sims
    /\ ent_calls' = run.calls
    /\ ent_page' = run.page

\* Back to roles when no role is chosen, Try another role otherwise.
EntToRoles ==
    /\ ent_stage = "simulation"
    /\ \E out \in EntSimOutcomes :
            ToRoles(ent_show_simulation(ent_selected_role, ent_simulations,
                                        ent_calls, out))
    /\ ent_stage' = "roles"
    /\ ent_last' = "to_roles"
    /\ UNCHANGED <<ent_role_options, ent_selected_role>>
    /\ UNCHANGED notEnt

\* The page is drawn, then the handler of Start over ENT.XP runs.
StartedOver(run) ==
    /\ Pressed(StartOver, run.page)
    /\ ent_page' = run.page

\* A start over that goes back to landing and clears the roles and the
\* selection, the stored simulations staying.
EntStartOverKeepsSimulations ==
    /\ ent_stage = "simulation"
    /\ \E out \in EntSimOutcomes :
            StartedOver(ent_show_simulation(ent_selected_role, ent_simulations,
                                            ent_calls, out))
    /\ ent_role_options' = JList(<<>>)
    /\ ent_selected_role' = JNull
    /\ ent_stage' = "landing"
    /\ ent_last' = "start_over"
    /\ UNCHANGED <<ent_simulations, ent_calls>>
    /\ UNCHANGED notEnt

\* Start over ENT.XP
EntStartOver ==
    /\ ent_stage = "simulation"
    /\ \E out \in EntSimOutcomes :
            StartedOver(ent_show_simulation(ent_selected_role, ent_simulations,
                                            ent_calls, out))
    /\ ent_role_options' = JList(<<>>)
    /\ ent_selected_role' = JNull
    /\ ent_simulations' = NoSimulations
    /\ ent_calls' = NoCalls
    /\ ent_stage' = "landing"
    /\ ent_last' = "start_over"
    /\ UNCHANGED notEnt

\* Any other interaction (a radio, a text area, a button that is no longer
\* drawn): the script runs again and no handler does.
EntRerun ==
    /\ \E out \in EntSimOutcomes : RoleSelected(EntShow(out))
    /\ ent_last' = "rerun"
    /\ UNCHANGED <<ent_stage, ent_role_options, ent_selected_role>>
    /\ UNCHANGED notEnt

EntNext ==
    \/ EntStart
    \/ EntQuizBack
    \/ EntQuizSubmit
    \/ EntSelectRole
    \/ EntRolesBack
    \/ EntToRoles
    \/ EntStartOver
    \/ EntRerun

SpecEnt == EntInit /\ [][EntNext]_vars

\* ------------------------------------------------------------ the Spark Hub

\* Slider settings: the defaults, and a setting off the middle.
SparkSliderChoices == {NoIdentity.sliders, Sliders(8, 2, 5, 5, 5, 5)}

\* A reply whose archetypes are no list.
IdentityBroken == JObj(<<K("spark_archetypes")>>, <<JNum(<<"1">>)>>)

SparkIdentityOutcomes ==
    {BedrockRaises, BedrockReturns(Dumps(IdentityGood)),
     BedrockReturns(Dumps(IdentityBroken))}

SparkConfidenceOutcomes == {BedrockRaises, BedrockReturns(Dumps(ConfidenceGood))}

SparkWeaknessTexts ==
    {<<>>, <<" ", NL, " ">>, <<"I'm shy", NL, " ", NL, "I OVERTHINK", " ">>}
SparkBarrierChoices == {<<>>, <<(<<"Money">>)>>}
SparkExtraTexts == {<<>>, <<" ">>, <<" ", "My family does not get it">>}

SparkInit ==
    /\ SparkIdle
    /\ IdleButSpark

\* A slider is moved: the script runs again, no handler does.
SparkSetSliders ==
    /\ \E sl \in SparkSliderChoices :
            spark_widgets' = [spark_widgets EXCEPT !.sliders = sl]
    /\ spark_page' = SparkPage(identity_result, "none", FALSE, <<>>)
    /\ UNCHANGED <<identity_raw, identity_result, confidence_raw, confidence_result>>
    /\ UNCHANGED notSpark

\* ai_result = call_identity_ai(identity_raw); stored
Revealed(res) ==
    IF res.raised
    THEN /\ spark_page' = [SparkPage(identity_result, "reveal", FALSE,
                                     <<"call_identity_ai">>) EXCEPT !.tab2 = FALSE]
         /\ UNCHANGED identity_result
    ELSE /\ identity_result' = res.value
         /\ spark_page' = SparkPage(res.value, "reveal", FALSE, <<"call_identity_ai">>)

\* Reveal My Spark Identity (the answers q1..q6 go into the prompt only and
\* are left out of identity_raw here)
SparkReveal ==
    /\ identity_raw' = Holding(IdentityData(spark_widgets.sliders))
    /\ \E out \in SparkIdentityOutcomes :
            Revealed(call_identity_ai(IdentityData(spark_widgets.sliders), out))
    /\ UNCHANGED <<confidence_raw, confidence_result, spark_widgets>>
    /\ UNCHANGED notSpark

\* The Confidence Lab inputs can be used when the tab is on the screen.
Tab2Drawn == spark_page.tab2 /\ Tab1Renders(identity_result)

SparkTypeWeaknesses ==
    /\ Tab2Drawn
    /\ \E t \in SparkWeaknessTexts :
            spark_widgets' = [spark_widgets EXCEPT !.weaknesses = t]
    /\ spark_page' = SparkPage(identity_result, "none", FALSE, <<>>)
    /\ UNCHANGED <<identity_raw, identity_result, confidence_raw, confidence_result>>
    /\ UNCHANGED notSpark

SparkPickBarriers ==
    /\ Tab2Drawn
    /\ \E b \in SparkBarrierChoices :
            spark_widgets' = [spark_widgets EXCEPT !.barriers = b]
    /\ spark_page' = SparkPage(identity_result, "none", FALSE, <<>>)
    /\ UNCHANGED <<identity_raw, identity_result, confidence_raw, confidence_result>>
    /\ UNCHANGED notSpark

SparkTypeExtraBarrier ==
    /\ Tab2Drawn
    /\ \E t \in SparkExtraTexts :
            spark_widgets' = [spark_widgets EXCEPT !.extra_barrier = t]
    /\ spark_page' = SparkPage(identity_result, "none", FALSE, <<>>)
    /\ UNCHANGED <<identity_raw, identity_result, confidence_raw, confidence_result>>
    /\ UNCHANGED notSpark

\* ai_result = call_confidence_ai(conf_raw); stored
Boosted(res) ==
    IF res.raised
    THEN /\ spark_page' = SparkPage(identity_result, "boost", FALSE,
                                    <<"call_confidence_ai">>)
         /\ UNCHANGED confidence_result
    ELSE /\ confidence_result' = res.value
         /\ spark_page' = SparkPage(identity_result, "boost", FALSE,
                                    <<"call_confidence_ai">>)

\* Boost My Spark
SparkBoost ==
    /\ Tab2Drawn
    /\ confidence_raw' = Holding(ConfRaw(spark_widgets))
    /\ IF NothingShared(WeaknessList(spark_widgets.weaknesses),
                        spark_widgets.barriers, spark_widgets.extra_barrier)
       THEN /\ spark_page' = SparkPage(identity_result, "boost", TRUE, <<>>)
            /\ UNCHANGED confidence_result
       ELSE \E out \in SparkConfidenceOutcomes :
                Boosted(call_confidence_ai(ConfRaw(spark_widgets), out))
    /\ UNCHANGED <<identity_raw, identity_result, spark_widgets>>
    /\ UNCHANGED notSpark

SparkNext ==
    \/ SparkSetSliders
    \/ SparkReveal
    \/ SparkTypeWeaknesses
    \/ SparkPickBarriers
    \/ SparkTypeExtraBarrier
    \/ SparkBoost

SpecSpark == SparkInit /\ [][SparkNext]_vars

\* ------------------------------------------------------- the Voice Copilot

MaxTurns == 4
MaxSessions == 3
MaxPolls == 2

CopTypedTexts == {<<" ">>, <<"hi">>}

\* Recordings: an unreadable header, 0.25 s, 0.5 s, 2 s, and a header with a
\* frame rate of zero.
CopRecordings ==
    {Wav(FALSE, 0, 0), Wav(TRUE, 1, 4), Wav(TRUE, 2, 4), Wav(TRUE, 8, 4),
     Wav(TRUE, 1, 0)}

CopTranscripts == {<<>>, <<" ", "hello">>}
CopAgentOutcomes == {AgentRaises, AgentReturns(<<>>), AgentReturns(<<"ok", " ">>)}
\* call_master_agent_text of frontend.bedrock_agent: it raises or returns a reply.
CopTextAgentOutcomes == {AgentRaises, AgentReturns(<<"ok">>)}
\* synthesize_speech: TRUE when it raises.
SynthOutcomes == BOOLEAN
\* The try block of the typed send: synthesize_voice raises, the write of the
\* bytes raises, or the file is there.
TextSynthOutcomes == {"synthesize_voice raises", "write raises", "returns"}

CopInit ==
    /\ CopIdle
    /\ IdleButCop

\* The tab is opened, or anything on it is touched that has no handler: the
\* script runs, setting the session id if there is none yet.
CopRerun ==
    /\ ~cop_job.active
    /\ cop_session_id' =
          IF cop_session_id = 0 THEN NewSessionId(cop_session_id, cop_issued)
          ELSE cop_session_id
    /\ cop_issued' = IF cop_session_id = 0 THEN cop_issued + 1 ELSE cop_issued
    /\ cop_run' = Run("none", Drawn(cop_audio), "none", <<>>, 0)
    /\ cop_job' = NoJob
    /\ UNCHANGED <<cop_history, cop_typed, cop_audio, cop_retired>>
    /\ UNCHANGED notCop

\* Reset conversation
CopReset ==
    /\ ~cop_job.active
    /\ ResetButton \in cop_run.buttons
    /\ cop_issued < MaxSessions
    /\ cop_history' = <<>>
    /\ cop_session_id' = ResetSessionId(cop_session_id, cop_issued)
    /\ cop_issued' = cop_issued + 1
    /\ cop_retired' = cop_retired \cup {cop_session_id}
    /\ cop_run' = Run("reset", Drawn(cop_audio), "none", <<>>, cop_session_id)
    /\ cop_job' = NoJob
    /\ UNCHANGED <<cop_typed, cop_audio>>
    /\ UNCHANGED notCop

\* The text input is edited.
CopType ==
    /\ ~cop_job.active
    /\ SendTextButton \in cop_run.buttons
    /\ \E t \in CopTypedTexts : cop_typed' = t
    /\ cop_run' = Run("none", Drawn(cop_audio), "none", <<>>, 0)
    /\ cop_job' = NoJob
    /\ UNCHANGED <<cop_session_id, cop_history, cop_audio, cop_issued, cop_retired>>
    /\ UNCHANGED notCop

\* The remote and file operations of a typed send, in their order, with the
\* handler of the try block when it ran.
TextOps(agent, synth) ==
    <<"call_master_agent_text">>
      \o (IF agent.raised THEN <<>>
          ELSE IF synth = "synthesize_voice raises"
          THEN <<"synthesize_voice", "except Exception">>
          ELSE IF synth = "write raises"
          THEN <<"synthesize_voice", "NamedTemporaryFile", "except Exception">>
          ELSE <<"synthesize_voice", "NamedTemporaryFile">>)

\* reply_audio_path after the try block
ReplyAudioPath(synth) == IF synth = "returns" THEN "tempfile.mp3" ELSE "none"

\* A handler that starts the history over with the turns of this send.
TextSentAfresh(agent, synth) ==
    /\ cop_history' =
          <<Turn("user", cop_typed, "none")>>
            \o (IF agent.raised THEN <<>>
                ELSE <<Turn("agent", agent.text, ReplyAudioPath(synth))>>)
    /\ cop_run' = Run("send_text", Drawn(cop_audio), "none", <<cop_session_id>>, 0)
    /\ cop_job' = Job(FALSE, NoAudio, 0, 0, TextOps(agent, synth), "none")

\* A handler without the try block around the synthesis.
TextSentUnguarded(agent, synth) ==
    IF agent.raised \/ synth # "returns"
    THEN /\ cop_history' = Append(cop_history, Turn("user", cop_typed, "none"))
         /\ cop_run' = Run("send_text", {ResetButton, SendTextButton},
                           IF agent.raised THEN "AgentError" ELSE "SynthError",
                           <<cop_session_id>>, 0)
         /\ cop_job' = Job(FALSE, NoAudio, 0, 0, TextOps(agent, synth), "none")
    ELSE /\ cop_history' = cop_history \o
                <<Turn("user", cop_typed, "none"),
                  Turn("agent", agent.text, ReplyAudioPath(synth))>>
         /\ cop_run' = Run("send_text", Drawn(cop_audio), "none", <<cop_session_id>>, 0)
         /\ cop_job' = Job(FALSE, NoAudio, 0, 0, TextOps(agent, synth), "none")

\* The user turn is in the history; the agent was called with the session id.
TextSent(agent, synth) ==
    IF agent.raised
    THEN /\ cop_history' = Append(cop_history, Turn("user", cop_typed, "none"))
         /\ cop_run' = Run("send_text", {ResetButton, SendTextButton}, "AgentError",
                           <<cop_session_id>>, 0)
         /\ cop_job' = Job(FALSE, NoAudio, 0, 0, TextOps(agent, synth), "none")
    ELSE /\ cop_history' = cop_history \o
                <<Turn("user", cop_typed, "none"),
                  Turn("agent", agent.text, ReplyAudioPath(synth))>>
         /\ cop_run' = Run("send_text", Drawn(cop_audio), "none", <<cop_session_id>>, 0)
         /\ cop_job' = Job(FALSE, NoAudio, 0, 0, TextOps(agent, synth), "none")

\* Send text
CopSendText ==
    /\ ~cop_job.active
    /\ SendTextButton \in cop_run.buttons
    /\ IF Strip(cop_typed) = <<>>
       THEN /\ cop_run' = Run("send_text", Drawn(cop_audio), "none", <<>>, 0)
            /\ cop_job' = NoJob
            /\ UNCHANGED cop_history
       ELSE /\ Len(cop_history) + 2 <= MaxTurns
            /\ \E agent \in CopTextAgentOutcomes, synth \in TextSynthOutcomes :
                    TextSent(agent, synth)
    /\ UNCHANGED <<cop_session_id, cop_typed, cop_audio, cop_issued, cop_retired>>
    /\ UNCHANGED notCop

\* A recording is made.
CopRecord ==
    /\ ~cop_job.active
    /\ MicRecorder \in cop_run.buttons
    /\ \E a \in CopRecordings :
          /\ cop_audio' = a
          /\ cop_run' = Run("none", Drawn(a), "none", <<>>, 0)
    /\ cop_job' = NoJob
    /\ UNCHANGED <<cop_session_id, cop_history, cop_typed, cop_issued, cop_retired>>
    /\ UNCHANGED notCop

\* upload_to_s3 and start_transcription_job: the exception that leaves them.
StartOutcomes == {"none", "UploadError", "StartJobError"}

\* The remote operations of transcribe_audio before its poll loop.
StartOps(start) ==
    IF start = "UploadError" THEN <<"upload">>
    ELSE <<"upload", "start_transcription_job">>

\* Send voice to agent: transcribe_audio up to the start of the job.
CopSendVoice ==
    /\ ~cop_job.active
    /\ SendVoiceButton \in cop_run.buttons
    /\ cop_audio.present
    /\ Len(cop_history) + 2 <= MaxTurns
    /\ IF DurationGuard(cop_audio) # "none"
       THEN /\ cop_job' = Job(FALSE, cop_audio, cop_session_id, 0, <<>>,
                              DurationGuard(cop_audio))
            /\ cop_run' = Run("send_voice", Drawn(cop_audio),
                              DurationGuard(cop_audio), <<>>, 0)
       ELSE \E start \in StartOutcomes :
                /\ cop_job' = Job(start = "none", cop_audio, cop_session_id, 0,
                                  StartOps(start), start)
                /\ cop_run' = Run("send_voice", Drawn(cop_audio), start, <<>>, 0)
    /\ UNCHANGED <<cop_session_id, cop_history, cop_typed, cop_audio, cop_issued,
                   cop_retired>>
    /\ UNCHANGED notCop

\* One pass of the poll loop: the job is still running; time.sleep(2).
CopPollWait ==
    /\ cop_job.active
    /\ cop_job.polls < MaxPolls
    /\ cop_job' = [cop_job EXCEPT !.polls = @ + 1,
                                  !.ops = Append(@, "get_transcription_job")]
    /\ UNCHANGED <<cop_session_id, cop_history, cop_typed, cop_audio, cop_issued,
                   cop_retired, cop_run>>
    /\ UNCHANGED notCop

\* A transcribe_audio that reads the transcript before it looks at the status.
CopPollFailedAfterFetch ==
    /\ cop_job.active
    /\ cop_job' = [cop_job EXCEPT !.active = FALSE,
                                  !.ops = @ \o <<"get_transcription_job", "get_object">>,
                                  !.error = "RuntimeError"]
    /\ cop_run' = [cop_run EXCEPT !.error = "RuntimeError"]
    /\ UNCHANGED <<cop_session_id, cop_history, cop_typed, cop_audio, cop_issued,
                   cop_retired>>
    /\ UNCHANGED notCop

\* The poll finds the job FAILED: RuntimeError leaves the handler.
CopPollFailed ==
    /\ cop_job.active
    /\ cop_job' = [cop_job EXCEPT !.active = FALSE,
                                  !.ops = Append(@, "get_transcription_job"),
                                  !.error = "RuntimeError"]
    /\ cop_run' = [cop_run EXCEPT !.error = "RuntimeError"]
    /\ UNCHANGED <<cop_session_id, cop_history, cop_typed, cop_audio, cop_issued,
                   cop_retired>>
    /\ UNCHANGED notCop

\* The poll finds the job COMPLETED and the read of the transcript raises.
CopFetchFailed ==
    /\ cop_job.active
    /\ cop_job' = [cop_job EXCEPT !.active = FALSE,
                                  !.ops = @ \o <<"get_transcription_job", "get_object">>,
                                  !.error = "FetchError"]
    /\ cop_run' = [cop_run EXCEPT !.error = "FetchError"]
    /\ UNCHANGED <<cop_session_id, cop_history, cop_typed, cop_audio, cop_issued,
                   cop_retired>>
    /\ UNCHANGED notCop

\* A handler that records the user turn before it calls the agent, as the
\* typed one does.
VoiceAnsweredUserFirst(user_text, reply, synth_raises) ==
    LET ops == cop_job.ops \o <<"get_transcription_job", "get_object">>
                 \o (IF reply.called THEN <<"invoke_agent">> ELSE <<>>)
        sids == IF reply.called THEN <<cop_job.sid>> ELSE <<>>
    IN  IF reply.raised
        THEN /\ cop_job' = [cop_job EXCEPT !.active = FALSE, !.ops = ops,
                                           !.error = "AgentError"]
             /\ cop_run' = [cop_run EXCEPT !.error = "AgentError", !.agent_sids = sids]
             /\ cop_history' = Append(cop_history,
                                      Turn("user", OrEllipsis(user_text), "none"))
        ELSE IF synth_raises
        THEN /\ cop_job' = [cop_job EXCEPT !.active = FALSE,
                                           !.ops = Append(ops, "synthesize_speech"),
                                           !.error = "SynthError"]
             /\ cop_run' = [cop_run EXCEPT !.error = "SynthError", !.agent_sids = sids]
             /\ cop_history' = Append(cop_history,
                                      Turn("user", OrEllipsis(user_text), "none"))
        ELSE /\ cop_job' = [cop_job EXCEPT !.active = FALSE,
                                           !.ops = Append(ops, "synthesize_speech")]
             /\ cop_run' = [cop_run EXCEPT !.agent_sids = sids]
             /\ cop_history' = cop_history \o
                    <<Turn("user", OrEllipsis(user_text), "none"),
                      Turn("agent", OrEllipsis(reply.text), "reply.mp3")>>

\* The rest of handle_voice_interaction and of the handler.
VoiceAnswered(user_text, reply, synth_raises) ==
    LET ops == cop_job.ops \o <<"get_transcription_job", "get_object">>
                 \o (IF reply.called THEN <<"invoke_agent">> ELSE <<>>)
        sids == IF reply.called THEN <<cop_job.sid>> ELSE <<>>
    IN  IF reply.raised
        THEN /\ cop_job' = [cop_job EXCEPT !.active = FALSE, !.ops = ops,
                                           !.error = "AgentError"]
             /\ cop_run' = [cop_run EXCEPT !.error = "AgentError", !.agent_sids = sids]
             /\ UNCHANGED cop_history
        ELSE IF synth_raises
        THEN /\ cop_job' = [cop_job EXCEPT !.active = FALSE,
                                           !.ops = Append(ops, "synthesize_speech"),
                                           !.error = "SynthError"]
             /\ cop_run' = [cop_run EXCEPT !.error = "SynthError", !.agent_sids = sids]
             /\ UNCHANGED cop_history
        ELSE /\ cop_job' = [cop_job EXCEPT !.active = FALSE,
                                           !.ops = Append(ops, "synthesize_speech")]
             /\ cop_run' = [cop_run EXCEPT !.agent_sids = sids]
             /\ cop_history' = cop_history \o
                    <<Turn("user", OrEllipsis(user_text), "none"),
                      Turn("agent", OrEllipsis(reply.text), "reply.mp3")>>

\* The poll finds the job COMPLETED: transcript, agent, speech, two turns.
CopPollCompleted ==
    /\ cop_job.active
    /\ \E transcript \in CopTranscripts, agent \in CopAgentOutcomes,
          synth_raises \in SynthOutcomes :
            VoiceAnswered(Strip(transcript),
                          call_master_agent(Strip(transcript), agent), synth_raises)
    /\ UNCHANGED <<cop_session_id, cop_typed, cop_audio, cop_issued, cop_retired>>
    /\ UNCHANGED notCop

CopNext ==
    \/ CopRerun
    \/ CopReset
    \/ CopType
    \/ CopSendText
    \/ CopRecord
    \/ CopSendVoice
    \/ CopPollWait
    \/ CopPollFailed
    \/ CopFetchFailed
    \/ CopPollCompleted

SpecCopilot == CopInit /\ [][CopNext]_vars

\* ---------------------------------------- one call of transcribe_audio

\* status in ["COMPLETED", "FAILED"]
TerminalStatus == {"COMPLETED", "FAILED"}

TranscribeInit ==
    /\ \E a \in CopRecordings : transcribe_call = Call(a, "guard", 0, "none", <<>>)
    /\ transcribe_job = "none"
    /\ IdleButTranscribe

\* The try block around the duration check.
TrGuard ==
    /\ transcribe_call.pc = "guard"
    /\ transcribe_call' =
          IF DurationGuard(transcribe_call.audio) # "none"
          THEN [transcribe_call EXCEPT !.pc = "raised",
                                       !.error = DurationGuard(transcribe_call.audio)]
          ELSE [transcribe_call EXCEPT !.pc = "upload"]
    /\ UNCHANGED <<transcribe_job, notTranscribe>>

\* upload_to_s3 returns or raises.
TrUpload ==
    /\ transcribe_call.pc = "upload"
    /\ \/ transcribe_call' = [transcribe_call EXCEPT !.pc = "start"]
       \/ transcribe_call' = [transcribe_call EXCEPT !.pc = "raised",
                                                     !.error = "UploadError"]
    /\ UNCHANGED <<transcribe_job, notTranscribe>>

\* start_transcription_job returns, the job being queued, or raises.
TrStart ==
    /\ transcribe_call.pc = "start"
    /\ \/ /\ transcribe_call' = [transcribe_call EXCEPT !.pc = "poll"]
          /\ transcribe_job' = "QUEUED"
       \/ /\ transcribe_call' = [transcribe_call EXCEPT !.pc = "raised",
                                                        !.error = "StartJobError"]
          /\ UNCHANGED transcribe_job
    /\ UNCHANGED notTranscribe

\* The service works on the job: it may, and need not, move it on.
JobRuns ==
    /\ \/ transcribe_job = "QUEUED" /\ transcribe_job' = "IN_PROGRESS"
       \/ transcribe_job = "IN_PROGRESS" /\ transcribe_job' \in TerminalStatus
    /\ UNCHANGED <<transcribe_call, notTranscribe>>

\* A poll loop that gives up after MaxPolls polls.
TrPollBounded ==
    /\ transcribe_call.pc = "poll"
    /\ transcribe_call' =
          IF transcribe_job = "FAILED"
          THEN [transcribe_call EXCEPT !.pc = "raised", !.error = "RuntimeError"]
          ELSE IF transcribe_job = "COMPLETED"
          THEN [transcribe_call EXCEPT !.pc = "fetch"]
          ELSE IF transcribe_call.polls = MaxPolls
          THEN [transcribe_call EXCEPT !.pc = "raised", !.error = "TimeoutError"]
          ELSE [transcribe_call EXCEPT !.pc = "sleep", !.polls = @ + 1]
    /\ UNCHANGED <<transcribe_job, notTranscribe>>

\* get_transcription_job and the test of the status: the loop is left on
\* COMPLETED and on FAILED, which raises; the polls are counted up to MaxPolls.
TrPoll ==
    /\ transcribe_call.pc = "poll"
    /\ transcribe_call' =
          IF transcribe_job = "FAILED"
          THEN [transcribe_call EXCEPT !.pc = "raised", !.error = "RuntimeError"]
          ELSE IF transcribe_job = "COMPLETED"
          THEN [transcribe_call EXCEPT !.pc = "fetch"]
          ELSE [transcribe_call EXCEPT
                   !.pc = "sleep",
                   !.polls = IF @ < MaxPolls THEN @ + 1 ELSE @]
    /\ UNCHANGED <<transcribe_job, notTranscribe>>

\* time.sleep(2)
TrSleep ==
    /\ transcribe_call.pc = "sleep"
    /\ transcribe_call' = [transcribe_call EXCEPT !.pc = "poll"]
    /\ UNCHANGED <<transcribe_job, notTranscribe>>

\* The transcript is read and returned stripped, or the read raises.
TrFetch ==
    /\ transcribe_call.pc = "fetch"
    /\ \/ \E t \in CopTranscripts :
             transcribe_call' = [transcribe_call EXCEPT !.pc = "returned",
                                                       !.text = Strip(t)]
       \/ transcribe_call' = [transcribe_call EXCEPT !.pc = "raised",
                                                     !.error = "FetchError"]
    /\ UNCHANGED <<transcribe_job, notTranscribe>>

\* The steps of the thread that runs transcribe_audio.
TranscribeSteps ==
    \/ TrGuard
    \/ TrUpload
    \/ TrStart
    \/ TrPoll
    \/ TrSleep
    \/ TrFetch

TranscribeNext ==
    \/ TranscribeSteps
    \/ JobRuns

\* The thread keeps running: every call in it returns or raises, and the
\* sleep ends. Nothing makes the service finish the job.
SpecTranscribe ==
    TranscribeInit /\ [][TranscribeNext]_vars /\ WF_vars(TranscribeSteps)

\* --------------------------------------------- one call of the agent

MaxEvents == 3

\* The events a stream is made of: no chunk, a chunk without bytes, a chunk
\* with empty bytes, and chunks with text.
AgentEvents ==
    {Event(FALSE, FALSE, <<>>), Event(TRUE, FALSE, <<>>), Event(TRUE, TRUE, <<>>),
     Event(TRUE, TRUE, <<" ">>), Event(TRUE, TRUE, <<"Hi">>),
     Event(TRUE, TRUE, <<" ", "there">>)}

AgentStreams == UNION {[1..n -> AgentEvents] : n \in 0..MaxEvents}

AgentCalls ==
    {AgentCall(t, InvokeRaises) : t \in {<<>>, <<"hello">>}}
    \cup {AgentCall(t, InvokeReturns(e)) : t \in {<<>>, <<"hello">>}, e \in AgentStreams}

AgentInit ==
    /\ agent_call \in AgentCalls
    /\ agent_out = AgentPending
    /\ IdleButAgent

\* One call of call_master_agent.
AgentRun ==
    /\ ~agent_out.done
    /\ agent_out' = AgentDone(call_master_agent(agent_call.user_text,
                                                Streamed(agent_call.invoked)))
    /\ UNCHANGED <<agent_call, notAgent>>

SpecAgent == AgentInit /\ [][AgentRun]_vars

\* ------------------------------------------------ the navigation shell

MaxRenders == 5

\* URLs the page is opened with: no parameter, next=true in three letter
\* cases, next=false, next=t, and next= with nothing after it.
ShellQueries ==
    {NoQuery, Query(TrueText), Query(<<"T", "r", "u", "e">>),
     Query(<<"T", "R", "U", "E">>), Query(FalseText), Query(<<"t">>), Query(<<>>)}

ShellInit ==
    /\ go_next = "absent"
    /\ shell_query \in ShellQueries
    /\ shell_choice = "Home"
    /\ shell_page = "none"
    /\ shell_renders = 0
    /\ shell_last = "none"
    /\ IdleButShell

\* The run an interaction ends with.
ShellRuns(flag, choice) ==
    /\ shell_page' = Script(flag, shell_query, choice).page
    /\ go_next' = Script(flag, shell_query, choice).go_next
    /\ shell_renders' = shell_renders + 1

\* The page is loaded: the first run of the session.
ShellLoad ==
    /\ shell_renders = 0
    /\ ShellRuns(go_next, shell_choice)
    /\ shell_last' = "load"
    /\ UNCHANGED <<shell_query, shell_choice>>
    /\ UNCHANGED notShell

\* Another option of the sidebar radio is picked.
ShellChoose ==
    /\ shell_renders \in 1..(MaxRenders - 1)
    /\ shell_page # "IndexError"
    /\ \E choice \in Choices \ {shell_choice} :
          /\ shell_choice' = choice
          /\ ShellRuns(go_next, choice)
    /\ shell_last' = "choose"
    /\ UNCHANGED shell_query
    /\ UNCHANGED notShell

\* The forward button of the Avatar Selector: the flag is set and
\* st.experimental_rerun() starts the next run.
ShellForward ==
    /\ shell_renders \in 1..(MaxRenders - 1)
    /\ shell_page = "avatar_selector_page"
    /\ Script(go_next, shell_query, shell_choice).page = "avatar_selector_page"
    /\ ShellRuns("True", shell_choice)
    /\ shell_last' = "forward"
    /\ UNCHANGED <<shell_query, shell_choice>>
    /\ UNCHANGED notShell

\* Any other interaction with the page on the screen, or a reload of the
\* browser tab within the session: the script runs again.
ShellRerun ==
    /\ shell_renders \in 1..(MaxRenders - 1)
    /\ ShellRuns(go_next, shell_choice)
    /\ shell_last' = "rerun"
    /\ UNCHANGED <<shell_query, shell_choice>>
    /\ UNCHANGED notShell

\* The flag as main finds it in a run.
FlagAtMain == IF QuerySaysNext(shell_query) THEN "True" ELSE FlagDefault(go_next)

\* The Send text handler in a run that draws the copilot: the user turn, the
\* agent call, the agent turn, and the run st.experimental_rerun() starts,
\* the flag being as main found it; an exception of the agent call stays on
\* the page.
ShellTextHandled(typed, agent, synth) ==
    /\ Len(cop_history) + 2 <= MaxTurns
    /\ cop_typed' = typed
    /\ cop_history' =
          Append(cop_history, Turn("user", typed, "none"))
            \o (IF agent.raised THEN <<>>
                ELSE <<Turn("agent", agent.text, ReplyAudioPath(synth))>>)
    /\ cop_run' = Run("send_text", {}, IF agent.raised THEN "AgentError" ELSE "none",
                      <<>>, 0)
    /\ IF agent.raised
       THEN /\ shell_page' = "voice_copilot_tab"
            /\ go_next' = FlagAtMain
            /\ shell_renders' = shell_renders + 1
       ELSE ShellRuns(FlagAtMain, shell_choice)

\* A message is typed and Send text is pressed on the copilot: the press
\* starts a run, and the handler runs in it if that run draws the copilot.
ShellSendText ==
    /\ shell_renders \in 1..(MaxRenders - 1)
    /\ shell_page = "voice_copilot_tab"
    /\ ~QueryRaises(shell_query)
    /\ IF Script(go_next, shell_query, shell_choice).page = "voice_copilot_tab"
       THEN \E agent \in CopTextAgentOutcomes, synth \in TextSynthOutcomes :
                ShellTextHandled(<<"hi">>, agent, synth)
       ELSE /\ ShellRuns(go_next, shell_choice)
            /\ UNCHANGED <<cop_typed, cop_history, cop_run>>
    /\ shell_last' = "send_text"
    /\ UNCHANGED <<shell_query, shell_choice>>
    /\ UNCHANGED <<cop_session_id, cop_audio, cop_issued, cop_retired, cop_job>>
    /\ UNCHANGED <<jsonVars, genVars, entVars, sparkVars, agentVars, transcribeVars>>

ShellNext ==
    \/ ShellLoad
    \/ ShellChoose
    \/ ShellForward
    \/ ShellRerun
    \/ ShellSendText

SpecShell == ShellInit /\ [][ShellNext]_vars

\* ------------------------------------------------- claims on the recovery

\* C3: for every object or list payload P, safe_json_from_model returns P when
\* given the text of P alone, the text of P between leading and trailing
\* bracket-free prose, and the text of P inside a triple-backtick fence.
C3_RecoversPayload ==
    (recovered.done /\ jcase.form \in {"bare", "prose", "fence"})
        => (recovered.ok /\ recovered.val = Loads(jcase.p).val)

\* The closing positions after the first open_char whose candidate parses.
ParsingEnds(r, open_char, close_char) ==
    LET start == Find(r, open_char)
    IN  IF start = 0 THEN {}
        ELSE {e \in (start + 1)..Len(r) :
                r[e] = close_char /\ Loads(SubSeq(r, start, e)).ok}

ShortestParse(r, open_char, close_char) ==
    LET ends == ParsingEnds(r, open_char, close_char)
        e == CHOOSE x \in ends : \A y \in ends : x <= y
    IN  Done(Loads(SubSeq(r, Find(r, open_char), e)))

ReachesBracketScan(r) == ~DirectParse(r).ok /\ ~FenceParse(r).ok

\* The rule of the bracket scan: the result is the value of the shortest
\* parsing substring from the first opening character of the first bracket
\* pair (list pair, then object pair) that yields any parse, and a ValueError
\* when neither pair yields one.
ShortestOfFirstPair ==
    LET r == Strip(raw)
    IN  (recovered.done /\ ReachesBracketScan(r)) =>
            IF ParsingEnds(r, "[", "]") # {}
            THEN recovered = ShortestParse(r, "[", "]")
            ELSE IF ParsingEnds(r, "{", "}") # {}
            THEN recovered = ShortestParse(r, "{", "}")
            ELSE ~recovered.ok

\* C4: when direct and fence parsing both fail, the bracket scan returns, for
\* the first bracket pair that yields any parse, the value of the shortest
\* substring from that pair's first opening character to a matching closing
\* character that parses; for prose {A} {B} prose with A a proper, flat object
\* it returns A, never B or a longer span.
C4_BracketScanShortest ==
    /\ ShortestOfFirstPair
    /\ (recovered.done /\ jcase.form = "two")
          => (recovered.ok /\ recovered.val = Loads(jcase.p).val)

\* ------------------------------------------------ claims on the generators

\* The try block of the generator that was called ended in an exception.
TryFailed(c) ==
    CASE c.fn = "roles"      -> RolesTry(GenerateAndParse(c.out)).exc # "none"
      [] c.fn = "simulation" -> SimulationTry(GenerateAndParse(c.out)).exc # "none"
      [] c.fn = "identity"   -> IdentityTry(GenerateAndParse(c.out)).exc # "none"
      [] OTHER               -> ConfidenceTry(GenerateAndParse(c.out)).exc # "none"

NonEmptyStr(v) == IsStr(v) /\ Len(v.s) > 0 /\ \A i \in 1..Len(v.s) : v.s[i] # ""

\* C5: whenever the Identity Lab call or its parsing fails, for all slider
\* values in 0..10 call_identity_ai raises nothing and returns exactly one
\* archetype, a non-empty environment summary and at least two suggested
\* roles; the archetype is named Vibe Curator in Progress for chaos_structure
\* >= 7, Vision Architect in Progress for <= 3, Emerging Creator for 4..6.
C5_IdentityFallback ==
    (gen_out.done /\ gen_call.fn = "identity" /\ TryFailed(gen_call)) =>
        LET v == gen_out.res.value
            chaos == gen_call.identity.sliders.chaos_structure
            archetypes == Get(v, K("spark_archetypes"), JNull)
            env == Get(v, K("creative_environment"), JNull)
            roles == Get(v, K("suggested_roles"), JNull)
        IN  /\ ~gen_out.res.raised
            /\ IsList(archetypes) /\ Len(archetypes.kids) = 1
            /\ Get(archetypes.kids[1], K("name"), JNull) =
                    S(IF chaos >= 7 THEN "Vibe Curator in Progress"
                      ELSE IF chaos <= 3 THEN "Vision Architect in Progress"
                      ELSE "Emerging Creator")
            /\ NonEmptyStr(Get(env, K("summary"), JNull))
            /\ IsList(roles) /\ Len(roles.kids) >= 2

\* C5 witness: the fallback was built at the lower edge of the top band.
C5_Witness ==
    /\ gen_out.done /\ gen_call.fn = "identity" /\ TryFailed(gen_call)
    /\ gen_call.identity.sliders.chaos_structure = 7
    /\ gen_call.identity.sliders.solo_team = SliderMin
    /\ gen_out.res.fallback

\* C8: ent_generate_role_options_from_ai never raises and never returns an
\* empty list; it returns the parsed value unchanged exactly when the call
\* succeeds and the recovered value is a non-empty list, and otherwise the
\* fixed fallback of exactly 3 roles, each with non-empty role_name,
\* one_sentence_hook and why_it_fits_this_person.
C8_RoleOptions ==
    (gen_out.done /\ gen_call.fn = "roles") =>
        LET got == GenerateAndParse(gen_call.out)
            v == gen_out.res.value
        IN  /\ ~gen_out.res.raised
            /\ IsList(v) /\ Len(v.kids) > 0
            /\ IF got.exc = "none" /\ IsList(got.val) /\ Len(got.val.kids) > 0
               THEN v = got.val /\ ~gen_out.res.fallback
               ELSE /\ gen_out.res.fallback
                    /\ v = FallbackRoles
                    /\ Len(v.kids) = 3
                    /\ \A i \in 1..3 : \A k \in {"role_name", "one_sentence_hook",
                                                  "why_it_fits_this_person"} :
                            NonEmptyStr(Get(v.kids[i], K(k), JNull))

\* C8 witness: the model answered with an empty list and the fallback came back.
C8_Witness ==
    /\ gen_out.done /\ gen_call.fn = "roles"
    /\ gen_call.out = BedrockReturns(ListEmpty)
    /\ gen_out.res.value = FallbackRoles

\* The documented fallback of the generator that was called.
DocumentedFallback(c) ==
    CASE c.fn = "roles"      -> FallbackRoles
      [] c.fn = "simulation" -> FallbackSimulation
      [] c.fn = "identity"   -> FallbackIdentity(c.identity)
      [] OTHER               -> FallbackConfidence(c.conf)

\* C10: each of the four generators catches every exception raised by
\* call_bedrock or safe_json_from_model and returns its documented fallback;
\* none of them lets an error out.
C10_CallersCatchAll ==
    gen_out.done =>
        /\ ~gen_out.res.raised
        /\ GenerateAndParse(gen_call.out).exc # "none" =>
                (gen_out.res.fallback /\ gen_out.res.value = DocumentedFallback(gen_call))

\* C10 witness: call_bedrock raised inside call_confidence_ai, which handed
\* back its fallback.
C10_Witness ==
    /\ gen_out.done /\ gen_call.fn = "confidence"
    /\ gen_call.out.raised
    /\ Len(gen_call.conf.weaknesses) > 0
    /\ ~gen_out.res.raised /\ gen_out.res.fallback

C12_FallbackHasNotice ==
    (gen_out.done /\ gen_out.res.fallback) => gen_out.res.notice

\* C18: after ent_generate_day_simulation returns, for any model output (a
\* bare empty list, an empty object, an object without scenes) or any failure,
\* the simulation it hands back to be stored has a non-empty list of scenes.
C18_SimulationHasScenes ==
    (gen_out.done /\ gen_call.fn = "simulation") =>
        /\ ~gen_out.res.raised
        /\ IsDict(gen_out.res.value)
        /\ IsList(Get(gen_out.res.value, K("scenes"), JNull))
        /\ Len(Get(gen_out.res.value, K("scenes"), JNull).kids) > 0

\* ------------------------------------- claims on the Day-in-the-Life module

\* What one step may do to the stored simulations.
C1_Step ==
    /\ \A n \in DOMAIN ent_calls' : ent_calls'[n] <= 1
    /\ ent_last' # "start_over" =>
          \A n \in DOMAIN ent_simulations :
              /\ n \in DOMAIN ent_simulations'
              /\ ent_simulations'[n] = ent_simulations[n]
              /\ n \in DOMAIN ent_calls' /\ ent_calls'[n] = ent_calls[n]
    /\ \A n \in DOMAIN ent_simulations' \ DOMAIN ent_simulations :
          /\ ent_calls'[n] = 1
          /\ ent_page'.name = n
          /\ ent_page'.sim = ent_simulations'[n]
    /\ ent_page'.memo_hit =>
          /\ ent_page'.name \in DOMAIN ent_simulations
          /\ ent_page'.sim = ent_simulations[ent_page'.name]

\* C1: ent_generate_day_simulation is invoked at most once per role name
\* between two start overs: the first visit of the simulation stage for a role
\* name stores the result in ent_simulations, and every later visit for that
\* name shows the stored value and calls the model no more.
C1_SimulationMemoized == [][C1_Step]_vars

\* C1 witness: a role was chosen again and its page came out of
\* ent_simulations, the generator having been called once for the name.
C1_Witness ==
    /\ ent_last = "select"
    /\ ent_page.stage = "simulation"
    /\ ent_page.memo_hit
    /\ ent_page.name \in DOMAIN ent_calls
    /\ ent_calls[ent_page.name] = 1
    /\ ent_page.sim = ent_simulations[ent_page.name]

\* The stage changes of the Day-in-the-Life module.
StageSteps ==
    {<<"landing", "quiz">>, <<"quiz", "landing">>, <<"quiz", "roles">>,
     <<"roles", "quiz">>, <<"roles", "simulation">>, <<"simulation", "roles">>,
     <<"simulation", "landing">>}

\* The stage is off landing and every run of the script draws a page without
\* a button: no handler can run again, so the stage stays where it is.
Terminal ==
    /\ ent_stage # "landing"
    /\ \A out \in EntSimOutcomes : EntShow(out).page.buttons = {}

\* What one step may do to the stage.
StageStep ==
    /\ ent_stage' \in {"landing", "quiz", "roles", "simulation"}
    /\ ent_stage' # ent_stage => <<ent_stage, ent_stage'>> \in StageSteps
    /\ ent_last = "none" => ent_stage = "landing"

\* The stage machine without the claim that no state is terminal.
StageMachine == [][StageStep]_vars

\* C16: the stage starts at landing, is always one of landing, quiz, roles,
\* simulation, and changes only by the seven steps of the module; no
\* reachable state is terminal: landing can be reached again from each.
C16_StageMachineNoTerminal == [][StageStep /\ ~Terminal']_vars

\* What start over and try another role do to the state.
C17_Step ==
    /\ ent_last' = "start_over" =>
          /\ ent_page.stage = "simulation" /\ StartOver \in ent_page.buttons
          /\ ent_role_options' = JList(<<>>)
          /\ ent_selected_role' = JNull
          /\ ent_simulations' = NoSimulations
          /\ ent_stage' = "landing"
    /\ (ent_last' = "to_roles" /\ TryAnotherRole \in ent_page.buttons
            /\ ent_stage = "simulation") =>
          /\ ent_stage' = "roles"
          /\ ent_role_options' = ent_role_options
          /\ ent_selected_role' = ent_selected_role
          /\ ent_simulations' = ent_simulations

\* C17: start over in the simulation stage leaves the role options empty, the
\* selected role unset and the stored simulations empty, and sets the stage to
\* landing; try another role sets the stage to roles and leaves role options,
\* selected role and stored simulations as they were.
C17_StartOverAndTryAnother == [][C17_Step]_vars

\* C17 witness: start over was pressed on a page that showed a stored
\* simulation, and roles, selection and simulations are gone.
C17_Witness ==
    /\ ent_last = "start_over"
    /\ ent_stage = "landing"
    /\ ent_page.stage = "simulation" /\ ent_page.sim # JNull
    /\ ent_role_options = JList(<<>>)
    /\ ent_selected_role = JNull
    /\ ent_simulations = NoSimulations

\* C19 as stated: once a non-empty list of role options is stored it stays
\* unchanged through every later action (back, back to quiz, selecting a
\* role, try another role, a further quiz submission) until start over.
C19_RolesImmutable ==
    [][(Len(ent_role_options.kids) > 0 /\ ent_role_options' # ent_role_options)
          => ent_last' = "start_over"]_vars

\* C19 amended: a stored non-empty list of role options stays unchanged
\* through back, back to quiz, selecting a role and try another role; a
\* further quiz submission replaces it with the newly generated non-empty
\* list, and start over empties it.
C19_RolesKeptUntilResubmit ==
    [][ent_role_options' # ent_role_options =>
          \/ ent_last' = "start_over" /\ ent_role_options' = JList(<<>>)
          \/ /\ ent_last' = "quiz_submit"
             /\ ent_stage = "quiz"
             /\ Len(ent_role_options'.kids) > 0]_vars

\* C19 witness: the quiz was submitted a second time and the fallback roles
\* took the place of the list a simulation had been chosen from.
C19_Witness ==
    /\ ent_last = "quiz_submit"
    /\ ent_role_options = FallbackRoles
    /\ <<"Sound Designer">> \in DOMAIN ent_simulations

\* C9: submitting the quiz always moves the stage from quiz to roles with a
\* non-empty list of role options, whatever the model returns or however it
\* fails; so in every reachable state, stage = roles implies the list is
\* non-empty.
C9_RolesNeverEmpty ==
    /\ ent_last = "quiz_submit" =>
          /\ ent_stage = "roles"
          /\ ~ent_page.crashed
          /\ IsList(ent_role_options) /\ Len(ent_role_options.kids) > 0
    /\ ent_stage = "roles" =>
          (IsList(ent_role_options) /\ Len(ent_role_options.kids) > 0)

\* C9 witness: the quiz was submitted, the model failed, and the stage is
\* roles with the fallback list.
C9_Witness ==
    /\ ent_last = "quiz_submit"
    /\ ent_stage = "roles"
    /\ ent_page.toast
    /\ ent_role_options = FallbackRoles

\* ----------------------------------------------- claims on the Spark Hub

BlankText(t) == \A i \in 1..Len(t) : IsSpace(t[i])

\* C6: pressing the Confidence Lab submit button with no non-blank weakness
\* line, no barrier selected and a blank or whitespace-only extra barrier
\* shows the validation warning and calls neither call_confidence_ai nor the
\* text-generation model in that run.
C6_BlankSubmitWarns ==
    (/\ spark_page.handler = "boost"
     /\ BlankText(spark_widgets.weaknesses)
     /\ spark_widgets.barriers = <<>>
     /\ BlankText(spark_widgets.extra_barrier))
        => (spark_page.warning /\ spark_page.calls = <<>>)

\* C6 witness: white space in both text inputs was submitted after an earlier
\* boost; the warning is up and the earlier result is still there.
C6_Witness ==
    /\ spark_page.handler = "boost"
    /\ spark_widgets.weaknesses = <<" ", NL, " ">>
    /\ spark_widgets.barriers = <<>>
    /\ spark_widgets.extra_barrier = <<" ">>
    /\ spark_page.warning
    /\ spark_page.calls = <<>>
    /\ confidence_result # JNull

\* C20: a Confidence Lab submission that fails validation takes no action on
\* session state: confidence_raw and confidence_result are after the run what
\* they were before it, so a result shown earlier is still shown with the raw
\* input it was generated from.
C20_FailedSubmitKeepsState ==
    [][(spark_page'.handler = "boost" /\ spark_page'.warning) =>
          /\ confidence_raw' = confidence_raw
          /\ confidence_result' = confidence_result]_vars

\* ------------------------------ claims on the Voice Copilot and the pipeline

\* C2: transcribe_audio rejects a recording whose duration reads and is below
\* 0.5 s with the audio-too-short error, before any upload, job, poll, agent
\* call or synthesis; a recording whose header does not read skips the guard
\* and goes on to the upload.
C2_ShortAudioRejected ==
    (cop_run.handler = "send_voice" /\ cop_job.audio.present) =>
        /\ (DurationError(cop_job.audio) = "none" /\ TooShort(cop_job.audio))
              => (cop_job.error = "ValueError" /\ cop_job.ops = <<>>)
        /\ ~cop_job.audio.readable
              => (Len(cop_job.ops) > 0 /\ cop_job.ops[1] = "upload")

\* before is a prefix of after.
IsPrefix(before, after) ==
    /\ Len(before) <= Len(after)
    /\ SubSeq(after, 1, Len(before)) = before

\* What one step may do to the history and the session id.
C13_Step ==
    /\ \/ IsPrefix(cop_history, cop_history')
       \/ cop_run'.handler = "reset" /\ cop_history' = <<>>
    /\ cop_session_id' # cop_session_id =>
          /\ cop_history' = <<>>
          /\ cop_run'.handler = "reset" \/ cop_session_id = 0

\* C13: across typed sends, spoken sends, failed remote calls and reruns the
\* history only grows at its end: before any step other than Reset
\* conversation it is a prefix of the history after the step, and the session
\* id changes only in the step that empties the history.
C13_HistoryAppendOnly == [][C13_Step]_vars

\* C13 witness: a typed send whose agent call failed left its user turn, and a
\* spoken send then added its two turns after it.
C13_Witness ==
    /\ Len(cop_history) = 3
    /\ cop_history[1] = Turn("user", <<"hi">>, "none")
    /\ cop_history[2].role = "user"
    /\ cop_history[3] = Turn("agent", cop_history[3].text, "reply.mp3")
    /\ cop_run.handler = "send_voice"

\* ------------------------------------------ claims on the navigation shell

\* What one step may do after the forward action.
C14_Step ==
    /\ shell_last' = "forward" /\ shell_renders' # shell_renders =>
          /\ shell_page' = "voice_copilot_tab"
          /\ PageOf(shell_choice') # "voice_copilot_tab"
          /\ go_next' = "False"
    /\ shell_last = "forward" /\ shell_renders' # shell_renders =>
          /\ shell_last' # "forward"
          /\ shell_page' = PageOf(shell_choice')

\* C14: after the forward action of the Avatar Selector sets the flag, the
\* next render shows the Voice Copilot whatever the sidebar says and leaves
\* the flag false, and the render after that is chosen by the sidebar alone.
C14_ForwardForcesOnce == [][C14_Step]_vars

\* C14 witness: the render after the forced one showed the page of the
\* sidebar choice, the Avatar Selector, on a URL that carries next=true.
C14_Witness ==
    /\ shell_last = "rerun"
    /\ shell_renders = 3
    /\ shell_page = "avatar_selector_page"
    /\ go_next = "False"
    /\ shell_query = Query(TrueText)

\* C15: a page loaded with next=true in any letter case renders the Voice
\* Copilot on its first render whatever the sidebar says, and the redirect
\* then clears itself: later reruns on the same URL follow the sidebar.
C15_QueryForcesOnce ==
    (shell_query.present /\ LowerText(shell_query.value) = TrueText) =>
        /\ shell_renders = 1 => shell_page = "voice_copilot_tab"
        /\ (shell_renders > 1 /\ shell_last # "forward") =>
                shell_page = PageOf(shell_choice)

\* C7: Reset conversation leaves the history empty and puts a session id
\* different from the previous one in its place; every agent call made after
\* the reset carries the new id and none carries a replaced one.
C7_ResetRenewsSession ==
    /\ cop_run.handler = "reset" =>
          /\ cop_history = <<>>
          /\ cop_session_id # cop_run.old_sid
          /\ cop_session_id \notin cop_retired
    /\ \A i \in 1..Len(cop_run.agent_sids) :
          /\ cop_run.agent_sids[i] = cop_session_id
          /\ cop_run.agent_sids[i] \notin cop_retired

\* C7 witness: after a reset of a conversation that had turns, a typed
\* message went to the agent under the new session id.
C7_Witness ==
    /\ cop_run.handler = "send_text"
    /\ cop_retired # {}
    /\ cop_run.agent_sids = <<cop_session_id>>
    /\ cop_session_id \notin cop_retired
    /\ Len(cop_history) = 2

\* The fixed reply of call_master_agent to an empty input.
DidntCatch == <<"I didn't catch that. Could you please repeat your answer?">>

\* C21: when the input of a turn is empty the remote agent is not invoked and
\* the fixed "didn't catch that" message is the agent's reply for the turn, on
\* the spoken path for an empty transcript and on the typed path for an empty
\* or whitespace-only message.
C21_EmptyInputShortCircuits ==
    /\ (/\ cop_run.handler = "send_voice" /\ cop_run.error = "none"
        /\ ~cop_job.active /\ Len(cop_job.ops) > 2
        /\ cop_history[Len(cop_history) - 1].text = <<"(...)">>)
          => (/\ cop_run.agent_sids = <<>>
              /\ cop_history[Len(cop_history)].role = "agent"
              /\ cop_history[Len(cop_history)].text = DidntCatch)
    /\ (cop_run.handler = "send_text" /\ Strip(cop_typed) = <<>>)
          => (/\ cop_run.agent_sids = <<>>
              /\ Len(cop_history) > 0
              /\ cop_history[Len(cop_history)].role = "agent"
              /\ cop_history[Len(cop_history)].text = DidntCatch)

\* The text of the events that carry bytes, in the order of arrival.
RECURSIVE Joined(_)
Joined(texts) == IF texts = <<>> THEN <<>> ELSE Head(texts) \o Joined(Tail(texts))
CarriesBytes(event) == event.chunk /\ event.bytes
TextOf(events) ==
    Joined([i \in 1..Len(SelectSeq(events, CarriesBytes)) |->
                SelectSeq(events, CarriesBytes)[i].text])

\* C22: call_master_agent never returns an empty string: for a non-empty
\* input it returns the concatenation, in arrival order, of the text of every
\* event chunk that carries bytes, trimmed, and the fixed "couldn't generate a
\* reply" message when that concatenation is empty or whitespace-only.
C22_AgentReplyNeverEmpty ==
    (agent_out.done /\ ~agent_out.reply.raised) =>
        /\ agent_out.reply.text # <<>>
        /\ agent_call.user_text # <<>> =>
              agent_out.reply.text =
                  IF Strip(TextOf(agent_call.invoked.events)) # <<>>
                  THEN Strip(TextOf(agent_call.invoked.events))
                  ELSE <<"Sorry, I couldn't generate a reply this time.">>

\* C22 witness: a stream of an event without a chunk, a chunk of white space
\* and a chunk without bytes came back as the fixed message.
C22_Witness ==
    /\ agent_out.done
    /\ agent_call.user_text = <<"hello">>
    /\ agent_call.invoked =
          InvokeReturns(<<Event(FALSE, FALSE, <<>>), Event(TRUE, TRUE, <<" ">>),
                          Event(TRUE, FALSE, <<>>)>>)
    /\ agent_out.reply.text = <<"Sorry, I couldn't generate a reply this time.">>

\* How many times a remote operation was done in the voice turn.
Times(op, ops) == Cardinality({i \in 1..Len(ops) : ops[i] = op})

\* C23: when the transcription job ends FAILED, transcribe_audio raises its
\* RuntimeError without fetching a transcript and without starting a second
\* job, and in that turn the agent is not invoked and no speech is synthesized.
C23_FailedJobStopsTurn ==
    cop_job.error = "RuntimeError" =>
        /\ ~cop_job.active
        /\ cop_run.error = "RuntimeError"
        /\ cop_job.ops[Len(cop_job.ops)] = "get_transcription_job"
        /\ Times("get_object", cop_job.ops) = 0
        /\ Times("start_transcription_job", cop_job.ops) = 1
        /\ Times("invoke_agent", cop_job.ops) = 0
        /\ Times("synthesize_speech", cop_job.ops) = 0
        /\ cop_run.agent_sids = <<>>

\* C23 witness: a job that was polled once while running and then found FAILED.
C23_Witness ==
    /\ cop_job.error = "RuntimeError"
    /\ cop_job.ops = <<"upload", "start_transcription_job", "get_transcription_job",
                       "get_transcription_job">>
    /\ cop_run.handler = "send_voice"

\* The replies call_master_agent_text returns.
TextReplies == {agent.text : agent \in {a \in CopTextAgentOutcomes : ~a.raised}}

\* C24: on the typed path a failure of synthesize_voice, or of writing its
\* bytes, never keeps the reply out of the history: after a non-empty typed
\* send whose agent call returned, the history ends with the user turn and
\* then the agent turn with the reply, and the agent turn has no audio
\* reference exactly when the try block around the synthesis failed.
C24_SynthFailureKeepsReply ==
    (/\ cop_run.handler = "send_text"
     /\ Strip(cop_typed) # <<>>
     /\ Times("synthesize_voice", cop_job.ops) = 1) =>
        /\ Len(cop_history) >= 2
        /\ cop_history[Len(cop_history) - 1] = Turn("user", cop_typed, "none")
        /\ cop_history[Len(cop_history)].role = "agent"
        /\ cop_history[Len(cop_history)].text \in TextReplies
        /\ cop_history[Len(cop_history)].audio_path = "none"
              <=> Times("except Exception", cop_job.ops) = 1

\* C24 witness: the write of the synthesized bytes failed and the reply is
\* the last turn, without audio.
C24_Witness ==
    /\ cop_run.handler = "send_text"
    /\ cop_job.ops = <<"call_master_agent_text", "synthesize_voice",
                       "NamedTemporaryFile", "except Exception">>
    /\ cop_history[Len(cop_history)] = Turn("agent", <<"ok">>, "none")

\* The step is one of a spoken send that has not succeeded: the turn is under
\* way or an exception has ended it.
VoiceTurnFails ==
    /\ cop_job' # cop_job
    /\ cop_run'.handler = "send_voice"
    /\ cop_job'.active \/ cop_job'.error # "none"

C25_Step == VoiceTurnFails => cop_history' = cop_history

\* C25: when a step of the voice pipeline fails during a spoken send (the
\* upload, the transcription, the agent call or the synthesis), the history
\* after the failed turn equals the history before it: no step of a turn that
\* ends in an exception writes to the history.
C25_FailedVoiceTurnKeepsHistory == [][C25_Step]_vars

\* C25 witness: after one answered spoken turn, a second one failed in the
\* synthesis and the history still holds the two turns of the first.
C25_Witness ==
    /\ cop_run.handler = "send_voice"
    /\ cop_job.error = "SynthError"
    /\ Len(cop_history) = 2
    /\ cop_history[2].audio_path = "reply.mp3"

\* transcribe_audio is in its poll loop.
InPollLoop == transcribe_call.pc \in {"poll", "sleep"}
JobEnded == transcribe_job \in TerminalStatus
Left == transcribe_call.pc \in {"returned", "raised"}

IsRoleOption(role, roles) == \E i \in 1..Len(roles.kids) : roles.kids[i] = role

\* C27: in every reachable state of the Day-in-the-Life module, when the
\* stage is simulation a role is selected and it is an entry of the current
\* list of role options, so the "pick a role first" branch of the simulation
\* page is never drawn.
C27_SimulationHasRole ==
    /\ ent_stage = "simulation" =>
          /\ ent_selected_role # JNull
          /\ IsRoleOption(ent_selected_role, ent_role_options)
    /\ SimBackRoles \notin ent_page.buttons

\* C27 witness: after a first choice and Try another role, the second role of
\* the list is on the simulation page.
C27_Witness ==
    /\ ent_stage = "simulation"
    /\ ent_last = "select"
    /\ Len(ent_role_options.kids) >= 2
    /\ ent_selected_role = ent_role_options.kids[2]
    /\ ent_page.stage = "simulation"

\* C28: in every reachable state, those after a failed agent call included,
\* the history is a sequence of (user turn, agent turn) pairs: its length is
\* even, the first turn of each pair is a user turn and the second an agent
\* turn.
C28_HistoryIsPairs ==
    /\ Len(cop_history) % 2 = 0
    /\ \A i \in 1..Len(cop_history) :
          cop_history[i].role = IF i % 2 = 1 THEN "user" ELSE "agent"

\* The step is a typed send from the copilot the forward button has forced,
\* the sidebar being on Home.
SendAfterRedirect ==
    /\ shell_last = "forward"
    /\ shell_page = "voice_copilot_tab"
    /\ shell_choice = "Home"
    /\ shell_last' = "send_text"
    /\ shell_renders' # shell_renders

C29_Step ==
    SendAfterRedirect =>
        /\ cop_run'.handler = "send_text"
        /\ Len(cop_history') > Len(cop_history)
        /\ cop_history'[Len(cop_history) + 1].role = "user"
        /\ cop_run'.error = "none" =>
              /\ Len(cop_history') = Len(cop_history) + 2
              /\ cop_history'[Len(cop_history) + 2].role = "agent"

\* C29: a non-empty typed message sent from the Voice Copilot that the
\* one-shot redirect has shown, the sidebar still being on Home, is
\* processed: the run the press of Send text starts executes the handler, and
\* the user turn and the agent turn are appended to the history.
C29_SendAfterRedirectProcessed == [][C29_Step]_vars

=============================================================================
